---------------------------- MODULE Spec2Model ----------------------------
(***************************************************************************)
(* Model of the daily feature pipeline of the retail alert system:         *)
(*   - DailyAggregator   (src/alert_features/daily_aggregator.py)          *)
(*   - AnomalyDetector   (src/alert_features/anomaly_detector.py)          *)
(*   - FeatureCache      (src/alert_features/feature_cache.py)             *)
(*   - build_date_range  (src/build_alert_features.py)                     *)
(*                                                                         *)
(* Numbers.  Money amounts and their statistics (mean, std) are integers   *)
(* in hundredths of a unit, and a z-score is an integer in hundredths,     *)
(* which is exactly what round(z, 2) leaves.  Where a finer unit is used   *)
(* (the calls of calculate_z_score on its own) the comment there says so.  *)
(* TLC compares only values of one kind, so a float that may be nan and a  *)
(* number that may be None are integers with the reserved values NaN and   *)
(* None, and a missing text cell of the table is the string MissingCell.   *)
(*                                                                         *)
(* Dates are proleptic Gregorian ordinals (date.toordinal()).              *)
(***************************************************************************)
EXTENDS Integers, Sequences, FiniteSets, TLC

VARIABLES
    sales,          \* the transaction table handed to the pipeline (set of rows)
    cache,          \* FeatureCache: the <stem>.json files, stem -> bundle
    baselines_file, \* FeatureCache: baselines.json, a baselines document or Absent
    run,            \* the build_date_range call in progress (or the last one)
    hist,           \* history: what the last operation did
    agg,            \* a DailyAggregator object and the result of its last call
    det             \* an AnomalyDetector call: function, arguments, result

vars == <<sales, cache, baselines_file, run, hist, agg, det>>

---------------------------------------------------------------------------
(* Bounds of the model *)

\* number of consecutive calendar dates of the window the model looks at
NumDays == 3
\* largest number of transaction rows of a sales table
MaxRows == 2
\* largest keep_days handed to delete_old_cache
MaxKeepDays == 1
\* longest list of category (or location) anomalies handed to the
\* multidimensional rule
MaxAnomalies == 2
\* z-score factors k range over -MaxKMilli .. MaxKMilli thousandths
MaxKMilli == 12
\* baseline standard deviations range over 0 .. MaxStd
MaxStd == 2
\* z-scores handed to classify_anomaly range over -MaxZ .. MaxZ hundredths
MaxZ == 302

---------------------------------------------------------------------------
(* Values *)

\* float('nan'), as Series.mean() and Series.std() give on too little data
NaN == -999999999
\* None in a field that otherwise holds a number
None == -999999998
\* a text cell of the table that read_csv found empty (nan)
MissingCell == "nan"
\* what a function returns for "return None" where it otherwise returns a dict
NoData == [none |-> TRUE]
\* what a call "returns" when it raises ValueError
ValueError == [raised |-> "ValueError"]
\* a file of the cache directory that does not exist
Absent == [absent |-> TRUE]

Abs(x) == IF x < 0 THEN -x ELSE x

RECURSIVE SumOver(_, _)
\* sum of f[x] over the finite set S
SumOver(S, f) ==
    IF S = {} THEN 0
    ELSE LET x == CHOOSE y \in S : TRUE
         IN  f[x] + SumOver(S \ {x}, f)

RECURSIVE ISqrtIn(_, _, _)
\* the largest k in lo .. hi with k * k <= n, by bisection
ISqrtIn(n, lo, hi) ==
    IF lo >= hi THEN lo
    ELSE LET mid == (lo + hi + 1) \div 2
         IN  IF mid * mid <= n THEN ISqrtIn(n, mid, hi)
             ELSE ISqrtIn(n, lo, mid - 1)
\* floor of the square root of n, 0 <= n < 2^31
ISqrt(n) == ISqrtIn(n, 0, 46340)

\* num / den (den > 0) rounded to the nearest integer, ties to even:
\* what Python's round() does on the quotient
RoundDiv(num, den) ==
    LET a == Abs(num)
        q == a \div den
        r == a % den
        m == IF 2 * r > den THEN q + 1
             ELSE IF 2 * r < den THEN q
             ELSE IF q % 2 = 0 THEN q ELSE q + 1
    IN  IF num < 0 THEN -m ELSE m

---------------------------------------------------------------------------
(* Calendar: datetime.date as used by the code *)

\* date(y, m, d).toordinal()
OrdinalOf(y, m, d) ==
    LET yy  == IF m <= 2 THEN y - 1 ELSE y
        era == yy \div 400
        yoe == yy - era * 400
        mp  == IF m > 2 THEN m - 3 ELSE m + 9
        doy == (153 * mp + 2) \div 5 + d - 1
        doe == yoe * 365 + yoe \div 4 - yoe \div 100 + doy
    IN  era * 146097 + doe - 305

\* date.fromordinal(n) as the record [year, month, day]
Ymd(n) ==
    LET z   == n + 305
        era == z \div 146097
        doe == z % 146097
        yoe == (doe - doe \div 1460 + doe \div 36524 - doe \div 146096) \div 365
        doy == doe - (365 * yoe + yoe \div 4 - yoe \div 100)
        mp  == (5 * doy + 2) \div 153
        d   == doy - (153 * mp + 2) \div 5 + 1
        m   == IF mp < 10 THEN mp + 3 ELSE mp - 9
        y   == yoe + era * 400 + (IF m <= 2 THEN 1 ELSE 0)
    IN  [year |-> y, month |-> m, day |-> d]

IsLeapYear(y) == (y % 4 = 0) /\ ((y % 100 # 0) \/ (y % 400 = 0))

\* whether target_date.replace(year=target_date.year - 1) raises ValueError:
\* the same month and day does not exist one year earlier (29 February)
ReplaceRaises(n) ==
    LET c == Ymd(n)
    IN  c.month = 2 /\ c.day = 29 /\ ~IsLeapYear(c.year - 1)

\* target_date.replace(year=target_date.year - 1) when it does not raise
LastYear(n) ==
    LET c == Ymd(n)
    IN  OrdinalOf(c.year - 1, c.month, c.day)

\* the window of dates of the model: NumDays dates ending on 2024-02-29
LastDate  == OrdinalOf(2024, 2, 29)
FirstDate == LastDate - NumDays + 1
Dates     == FirstDate .. LastDate

---------------------------------------------------------------------------
(* The sales table (load_data): one row per sale line item.  Money is in   *)
(* hundredths of a unit.  A missing Dept Fullname / Branch Name cell is    *)
(* read by read_csv as nan.                                                *)

\* categories and locations in sorted order (the order of a pandas groupby)
DeptSeq   == <<"OTC", "Skincare">>
BranchSeq == <<"Baggot St", "Dundrum">>
Depts     == {DeptSeq[i] : i \in DOMAIN DeptSeq}
Branches  == {BranchSeq[i] : i \in DOMAIN BranchSeq}

Turnovers == {1000, 3000}
Qtys      == {1, 2}

Rows(dates, depts, branches, turnovers, qtys) ==
    [date : dates, dept : depts, branch : branches,
     turnover : turnovers, qty : qtys]

Tables(rows) == {T \in SUBSET rows : Cardinality(T) <= MaxRows}

RECURSIVE SumTurnover(_)
\* data['Turnover'].sum()
SumTurnover(R) ==
    IF R = {} THEN 0
    ELSE LET r == CHOOSE x \in R : TRUE
         IN  r.turnover + SumTurnover(R \ {r})

RECURSIVE SumQty(_)
\* data['Qty Sold'].sum()
SumQty(R) ==
    IF R = {} THEN 0
    ELSE LET r == CHOOSE x \in R : TRUE
         IN  r.qty + SumQty(R \ {r})

\* the empty dict {}
EmptyDict == [x \in {} |-> None]

---------------------------------------------------------------------------
(* DailyAggregator *)

\* a faulty day filter, against which C9 is checked: it also takes the rows
\* of earlier dates
DayData_UpTo(S, d) == {r \in S : r.date <= d}

\* self.sales_df[self.sales_df['date'] == target_date]
DayData(S, d) == {r \in S : r.date = d}

\* the keys of day_data.groupby(col): groupby drops the rows whose key is nan
GroupKeys(R, col) == {r[col] : r \in R} \ {MissingCell}

_calculate_daily_totals(day_data) ==
    [total_revenue     |-> SumTurnover(day_data),
     total_units       |-> SumQty(day_data),
     line_items        |-> Cardinality(day_data),
     unique_categories |-> Cardinality(GroupKeys(day_data, "dept"))]

\* the revenue _get_category_revenue computes on a memo miss
CategoryRevenue(S, category, date) ==
    SumTurnover({r \in S : r.date = date /\ r.dept = category})

\* a faulty memo, against which C18 is checked: the key is the category
\* alone, whatever the date
_get_category_revenue_AnyDate(memo, S, category, date) ==
    IF \E k \in DOMAIN memo : k[1] = category
    THEN memo[CHOOSE k \in DOMAIN memo : k[1] = category]
    ELSE CategoryRevenue(S, category, date)

\* _get_category_revenue: the memoized value when the key is in self._cache
_get_category_revenue(memo, S, category, date) ==
    IF <<category, date>> \in DOMAIN memo
    THEN memo[<<category, date>>]
    ELSE CategoryRevenue(S, category, date)

\* growth in tenths of a percent, None when the reference revenue is not > 0
Growth(turnover, reference) ==
    IF reference > 0
    THEN RoundDiv((turnover - reference) * 1000, reference)
    ELSE None

\* one entry of by_category, from the rows of the category and the revenues
\* of the category yesterday and on the same day last year
CategoryStats(rows, turnover, yesterday_revenue, last_year_revenue) ==
    [revenue |-> turnover,
     units   |-> SumQty(rows),
     growth_vs_yesterday |-> Growth(turnover, yesterday_revenue),
     growth_vs_last_year |-> Growth(turnover, last_year_revenue)]

\* by_category of the bundle; ValueError when target_date.replace raises
\* inside the loop over the groups
_calculate_by_category(memo, S, day_data, target_date) ==
    IF GroupKeys(day_data, "dept") # {} /\ ReplaceRaises(target_date)
    THEN ValueError
    ELSE [c \in GroupKeys(day_data, "dept") |->
            CategoryStats({r \in day_data : r.dept = c},
                SumTurnover({r \in day_data : r.dept = c}),
                _get_category_revenue(memo, S, c, target_date - 1),
                _get_category_revenue(memo, S, c, LastYear(target_date)))]

\* the keys _calculate_by_category looks up with _get_category_revenue
MemoKeys(day_data, target_date) ==
    {<<c, target_date - 1>> : c \in GroupKeys(day_data, "dept")}
    \cup {<<c, LastYear(target_date)>> : c \in GroupKeys(day_data, "dept")}

\* self._cache after _calculate_by_category returned normally
MemoAfter(memo, S, day_data, target_date) ==
    [k \in DOMAIN memo \cup MemoKeys(day_data, target_date) |->
        IF k \in DOMAIN memo THEN memo[k]
        ELSE CategoryRevenue(S, k[1], k[2])]

\* self._cache when target_date.replace raises in the first pass of the loop
\* over the groups: yesterday's revenue of the first group was looked up
MemoAtRaise(memo, S, day_data, target_date) ==
    LET first == CHOOSE c \in GroupKeys(day_data, "dept") :
                    \A i, j \in DOMAIN DeptSeq :
                        (DeptSeq[i] = c
                         /\ DeptSeq[j] \in GroupKeys(day_data, "dept"))
                            => i <= j
    IN  [k \in DOMAIN memo \cup {<<first, target_date - 1>>} |->
            IF k \in DOMAIN memo THEN memo[k]
            ELSE CategoryRevenue(S, k[1], k[2])]

_calculate_by_location(day_data) ==
    [b \in GroupKeys(day_data, "branch") |->
        LET rows == {r \in day_data : r.branch = b}
        IN  [revenue |-> SumTurnover(rows), units |-> SumQty(rows)]]

\* date.weekday(): Monday is 0 (the date of ordinal 1 is a Monday)
weekday(n) == (n - 1) % 7

\* daily_revenues = data.groupby('date')['Turnover'].sum()
DailyRevenues(R) ==
    [d \in {r.date : r \in R} |-> SumTurnover({r \in R : r.date = d})]

\* daily_revenues.mean() of a series that is not empty, to the hundredth
MeanRevenue(daily) ==
    RoundDiv(SumOver(DOMAIN daily, daily), Cardinality(DOMAIN daily))

RECURSIVE KthSmallest(_, _, _)
\* the k-th smallest of the values daily[d], d in D
KthSmallest(D, daily, k) ==
    LET least == CHOOSE d \in D : \A e \in D : daily[d] <= daily[e]
    IN  IF k = 1 THEN daily[least]
        ELSE KthSmallest(D \ {least}, daily, k - 1)

\* daily_revenues.median() of a series that is not empty, to the hundredth:
\* the middle value, or the mean of the two middle values
MedianRevenue(daily) ==
    LET n == Cardinality(DOMAIN daily)
    IN  IF n % 2 = 1 THEN KthSmallest(DOMAIN daily, daily, (n + 1) \div 2)
        ELSE RoundDiv(KthSmallest(DOMAIN daily, daily, n \div 2)
                      + KthSmallest(DOMAIN daily, daily, n \div 2 + 1), 2)

\* the dict a with the entries of b added
Merge(a, b) ==
    [k \in DOMAIN a \cup DOMAIN b |-> IF k \in DOMAIN b THEN b[k] ELSE a[k]]

\* the rows with date > target_date - timedelta(days) and date < target_date
Trailing(S, target_date, days) ==
    {r \in S : r.date > target_date - days /\ r.date < target_date}

\* same_day_last_year of historical_context (replace did not raise)
SameDayLastYear(S, target_date) ==
    IF DayData(S, LastYear(target_date)) # {}
    THEN [same_day_last_year |->
            [date |-> Ymd(LastYear(target_date)),
             revenue |-> SumTurnover(DayData(S, LastYear(target_date)))]]
    ELSE EmptyDict

\* 7_day_average and 7_day_median, when week_data has rows
WeekContext(week_data) ==
    IF week_data # {}
    THEN [k \in {"7_day_average", "7_day_median"} |->
            IF k = "7_day_average"
            THEN MeanRevenue(DailyRevenues(week_data))
            ELSE MedianRevenue(DailyRevenues(week_data))]
    ELSE EmptyDict

\* 30_day_average and 30_day_median, when month_data has rows
MonthContext(month_data) ==
    IF month_data # {}
    THEN [k \in {"30_day_average", "30_day_median"} |->
            IF k = "30_day_average"
            THEN MeanRevenue(DailyRevenues(month_data))
            ELSE MedianRevenue(DailyRevenues(month_data))]
    ELSE EmptyDict

\* weekday_typical, when weekday_data has rows
WeekdayContext(weekday_data) ==
    IF weekday_data # {}
    THEN [weekday_typical |-> MedianRevenue(DailyRevenues(weekday_data))]
    ELSE EmptyDict

\* historical_context of the bundle; ValueError when target_date.replace
\* raises
_calculate_historical_context(S, target_date) ==
    IF ReplaceRaises(target_date) THEN ValueError
    ELSE Merge(Merge(Merge(SameDayLastYear(S, target_date),
                WeekContext(Trailing(S, target_date, 7))),
                MonthContext(Trailing(S, target_date, 30))),
                WeekdayContext({r \in Trailing(S, target_date, 56) :
                                  weekday(r.date) = weekday(target_date)}))

\* the features dict of aggregate_day, or ValueError when a part raised
Features(target_date, day_data, by_category, historical_context) ==
    IF by_category = ValueError \/ historical_context = ValueError
    THEN ValueError
    ELSE [date |-> Ymd(target_date),
          daily_totals |-> _calculate_daily_totals(day_data),
          by_category  |-> by_category,
          by_location  |-> _calculate_by_location(day_data),
          anomalies    |-> EmptyDict,
          historical_context |-> historical_context]

\* what aggregate_day returns when the clock reads now: the features with
\* 'execution_time': datetime.now().isoformat(), the one field that depends
\* on the clock and that Features leaves out
Stamped(result, now) ==
    IF result \in {NoData, ValueError} THEN result
    ELSE [k \in DOMAIN result \cup {"execution_time"} |->
            IF k = "execution_time" THEN now ELSE result[k]]

\* aggregate_day on the rows of the day
AggregateRows(memo, S, target_date, day_data) ==
    IF day_data = {} THEN [result |-> NoData, memo |-> memo]
    ELSE [result |-> Features(target_date, day_data,
                        _calculate_by_category(memo, S, day_data, target_date),
                        _calculate_historical_context(S, target_date)),
          memo |-> IF GroupKeys(day_data, "dept") # {}
                      /\ ReplaceRaises(target_date)
                   THEN MemoAtRaise(memo, S, day_data, target_date)
                   ELSE MemoAfter(memo, S, day_data, target_date)]

\* aggregate_day on an aggregator whose memo is memo: the pair of the value
\* returned (a bundle, NoData, or ValueError for the exception raised) and
\* the memo afterwards
aggregate_day(memo, S, target_date) ==
    AggregateRows(memo, S, target_date, DayData(S, target_date))

RECURSIVE DateRangeLoop(_, _, _, _, _)
\* the body of the while loop of aggregate_date_range, r being what
\* aggregate_day gave for current_date
DateRangeStep(S, current_date, end_date, features_list, r) ==
    IF r.result = ValueError
    THEN [features_list |-> features_list, raised |-> TRUE, memo |-> r.memo]
    ELSE DateRangeLoop(r.memo, S, current_date + 1, end_date,
            IF r.result = NoData THEN features_list
            ELSE Append(features_list, r.result))

\* the while loop of aggregate_date_range from current_date on
DateRangeLoop(memo, S, current_date, end_date, features_list) ==
    IF current_date > end_date
    THEN [features_list |-> features_list, raised |-> FALSE, memo |-> memo]
    ELSE DateRangeStep(S, current_date, end_date, features_list,
                       aggregate_day(memo, S, current_date))

\* aggregate_date_range on an aggregator whose memo is memo: the list
\* returned (or the list built when aggregate_day raised), whether
\* ValueError was raised, and the memo afterwards
aggregate_date_range(memo, S, start_date, end_date) ==
    DateRangeLoop(memo, S, start_date, end_date, <<>>)

---------------------------------------------------------------------------
(* AnomalyDetector *)

\* the thresholds of classify_anomaly, in hundredths
CriticalZ    == 300
SignificantZ == 200
MinorZ       == 150
\* the threshold on |total_revenue_z| of the multidimensional rule
TotalRevenueZ == 200
\* window_days of build_baselines
BaselineWindowDays == 30

\* a faulty z-score, against which C7 is checked: the mean is not subtracted
calculate_z_score_NoMean(value, baseline_mean, baseline_std) ==
    IF baseline_std = 0 THEN 0
    ELSE IF NaN \in {value, baseline_mean, baseline_std} THEN NaN
    ELSE RoundDiv(100 * value, baseline_std)

\* calculate_z_score: value, mean and std in one unit, the result in
\* hundredths; arithmetic on nan gives nan, and nan == 0 is false
calculate_z_score(value, baseline_mean, baseline_std) ==
    IF baseline_std = 0 THEN 0
    ELSE IF NaN \in {value, baseline_mean, baseline_std} THEN NaN
    ELSE RoundDiv(100 * (value - baseline_mean), baseline_std)

\* a faulty classification, against which C6 is checked: thresholds included
classify_anomaly_Inclusive(z_score) ==
    IF z_score = NaN THEN "normal"
    ELSE IF Abs(z_score) >= CriticalZ THEN "critical_anomaly"
    ELSE IF Abs(z_score) >= SignificantZ THEN "significant_anomaly"
    ELSE IF Abs(z_score) >= MinorZ THEN "minor_anomaly"
    ELSE "normal"

\* classify_anomaly: every comparison with nan is false
classify_anomaly(z_score) ==
    IF z_score = NaN THEN "normal"
    ELSE IF Abs(z_score) > CriticalZ THEN "critical_anomaly"
    ELSE IF Abs(z_score) > SignificantZ THEN "significant_anomaly"
    ELSE IF Abs(z_score) > MinorZ THEN "minor_anomaly"
    ELSE "normal"

\* d.get(key) is truthy: the key is there and its dict is not empty
Truthy(d, key) == key \in DOMAIN d /\ d[key] # EmptyDict

\* the classifications that count as significant in the multidimensional rule
IsSignificant(a) ==
    a.classification \in {"critical_anomaly", "significant_anomaly"}

\* a faulty multidimensional rule, against which C4 is checked: it asks for
\* more than 2 significant anomalies of a kind
_check_multidimensional_anomaly_MoreThan2(anomalies) ==
    LET z == anomalies.total_revenue_z
    IN  \/ Len(SelectSeq(anomalies.category_anomalies, IsSignificant)) > 2
        \/ Len(SelectSeq(anomalies.location_anomalies, IsSignificant)) > 2
        \/ /\ z # None /\ z # 0 /\ z # NaN /\ Abs(z) > TotalRevenueZ
           /\ Len(SelectSeq(anomalies.category_anomalies, IsSignificant))
              + Len(SelectSeq(anomalies.location_anomalies, IsSignificant)) >= 1

\* a faulty multidimensional rule, against which C5 is checked: in its third
\* clause an anomaly of any severity counts
_check_multidimensional_anomaly_AnySeverity(anomalies) ==
    LET z == anomalies.total_revenue_z
    IN  \/ Len(SelectSeq(anomalies.category_anomalies, IsSignificant)) >= 2
        \/ Len(SelectSeq(anomalies.location_anomalies, IsSignificant)) >= 2
        \/ /\ z # None /\ z # 0 /\ z # NaN /\ Abs(z) > TotalRevenueZ
           /\ Len(anomalies.category_anomalies)
              + Len(anomalies.location_anomalies) >= 1

_check_multidimensional_anomaly(anomalies) ==
    LET significant_category_anomalies ==
            SelectSeq(anomalies.category_anomalies, IsSignificant)
        significant_location_anomalies ==
            SelectSeq(anomalies.location_anomalies, IsSignificant)
        z == anomalies.total_revenue_z
        \* None and 0.0 are falsy; abs(nan) > 2 is false
        total_revenue_significant ==
            z # None /\ z # 0 /\ z # NaN /\ Abs(z) > TotalRevenueZ
    IN  IF Len(significant_category_anomalies) >= 2 THEN TRUE
        ELSE IF Len(significant_location_anomalies) >= 2 THEN TRUE
        ELSE IF total_revenue_significant
                /\ (Len(significant_category_anomalies) >= 1
                    \/ Len(significant_location_anomalies) >= 1) THEN TRUE
        ELSE FALSE

\* the z-score of one dimension of the bundle against its baseline entry
DimensionZ(metrics, baseline) ==
    calculate_z_score(metrics.revenue, baseline.mean, baseline.std)

\* a faulty collection loop, against which C8 is checked: it leaves the minor
\* anomalies out
AnomalousKeys_NoMinor(keySeq, observed, base) ==
    SelectSeq(keySeq,
        LAMBDA k : k \in DOMAIN observed /\ k \in DOMAIN base
            /\ classify_anomaly(DimensionZ(observed[k], base[k]))
                  \in {"critical_anomaly", "significant_anomaly"})

\* the keys of keySeq, in order, for which the loop of detect_daily_anomalies
\* appends an anomaly: in the bundle, in the baselines, and not normal
AnomalousKeys(keySeq, observed, base) ==
    SelectSeq(keySeq,
        LAMBDA k : k \in DOMAIN observed /\ k \in DOMAIN base
            /\ classify_anomaly(DimensionZ(observed[k], base[k])) # "normal")

\* the record appended for an anomalous category
CategoryEntry(category, metrics, baseline, z) ==
    [category |-> category,
     z_score |-> z,
     classification |-> classify_anomaly(z),
     observed |-> metrics.revenue,
     baseline_mean |-> baseline.mean,
     direction |-> IF z > 0 THEN "above" ELSE "below"]

CategoryEntries(keys, observed, base) ==
    [i \in 1 .. Len(keys) |->
        CategoryEntry(keys[i], observed[keys[i]], base[keys[i]],
                      DimensionZ(observed[keys[i]], base[keys[i]]))]

\* the loop of detect_daily_anomalies over by_category
CategoryAnomalies(daily_features, baselines) ==
    IF ~(Truthy(daily_features, "by_category")
         /\ Truthy(baselines, "by_category")) THEN <<>>
    ELSE CategoryEntries(
            AnomalousKeys(DeptSeq, daily_features.by_category,
                          baselines.by_category),
            daily_features.by_category, baselines.by_category)

\* the record appended for an anomalous location
LocationEntry(location, metrics, baseline, z) ==
    [location |-> location,
     z_score |-> z,
     classification |-> classify_anomaly(z),
     observed |-> metrics.revenue,
     baseline_mean |-> baseline.mean,
     direction |-> IF z > 0 THEN "above" ELSE "below"]

LocationEntries(keys, observed, base) ==
    [i \in 1 .. Len(keys) |->
        LocationEntry(keys[i], observed[keys[i]], base[keys[i]],
                      DimensionZ(observed[keys[i]], base[keys[i]]))]

\* the loop of detect_daily_anomalies over by_location
LocationAnomalies(daily_features, baselines) ==
    IF ~(Truthy(daily_features, "by_location")
         /\ Truthy(baselines, "by_location")) THEN <<>>
    ELSE LocationEntries(
            AnomalousKeys(BranchSeq, daily_features.by_location,
                          baselines.by_location),
            daily_features.by_location, baselines.by_location)

\* whether detect_daily_anomalies looks at the total revenue at all
ChecksTotal(daily_features, baselines) ==
    "total_revenue" \in DOMAIN baselines /\ Truthy(daily_features, "daily_totals")

\* total_revenue_z: None unless the total revenue is looked at
TotalZ(daily_features, baselines) ==
    IF ChecksTotal(daily_features, baselines)
    THEN calculate_z_score(daily_features.daily_totals.total_revenue,
                           baselines.total_revenue.mean,
                           baselines.total_revenue.std)
    ELSE None

\* a faulty anomalies dict, against which C26 is checked: has_anomaly is set
\* for the total revenue only, not at the appends to the two lists
Anomalies_TotalOnly(total_z, category_anomalies, location_anomalies) ==
    [has_anomaly |-> total_z # None /\ classify_anomaly(total_z) # "normal",
     anomaly_types |->
        IF total_z # None /\ classify_anomaly(total_z) # "normal"
        THEN <<"total_revenue">> ELSE <<>>,
     total_revenue_z |-> total_z,
     category_anomalies |-> category_anomalies,
     location_anomalies |-> location_anomalies]

\* the anomalies dict before the multidimensional check: has_anomaly is set
\* where the total revenue is not normal and at every append to a list
Anomalies(total_z, category_anomalies, location_anomalies) ==
    [has_anomaly |-> \/ (total_z # None /\ classify_anomaly(total_z) # "normal")
                     \/ Len(category_anomalies) > 0
                     \/ Len(location_anomalies) > 0,
     anomaly_types |->
        IF total_z # None /\ classify_anomaly(total_z) # "normal"
        THEN <<"total_revenue">> ELSE <<>>,
     total_revenue_z |-> total_z,
     category_anomalies |-> category_anomalies,
     location_anomalies |-> location_anomalies]

\* anomalies['is_true_anomaly'] = self._check_multidimensional_anomaly(anomalies)
WithTrueAnomaly(anomalies) ==
    [has_anomaly        |-> anomalies.has_anomaly,
     anomaly_types      |-> anomalies.anomaly_types,
     total_revenue_z    |-> anomalies.total_revenue_z,
     category_anomalies |-> anomalies.category_anomalies,
     location_anomalies |-> anomalies.location_anomalies,
     is_true_anomaly    |-> _check_multidimensional_anomaly(anomalies)]

detect_daily_anomalies(daily_features, baselines) ==
    WithTrueAnomaly(
        Anomalies(TotalZ(daily_features, baselines),
                  CategoryAnomalies(daily_features, baselines),
                  LocationAnomalies(daily_features, baselines)))

RECURSIVE SumSquares(_, _)
\* the sum of f[x] * f[x] over the finite set D
SumSquares(D, f) ==
    IF D = {} THEN 0
    ELSE LET x == CHOOSE y \in D : TRUE
         IN  f[x] * f[x] + SumSquares(D \ {x}, f)

\* mean and (sample) std of the series data.groupby('date')['Turnover'].sum():
\* both nan on an empty series, std nan on a series of one day
DailyRevenueStats(R) ==
    LET days  == {r.date : r \in R}
        n     == Cardinality(days)
        daily == [d \in days |-> SumTurnover({r \in R : r.date = d})]
        total == SumOver(days, daily)
    IN  [mean |-> IF n = 0 THEN NaN ELSE RoundDiv(total, n),
         std  |-> IF n <= 1 THEN NaN
                  ELSE ISqrt((n * SumSquares(days, daily) - total * total)
                             \div (n * (n - 1)))]

\* calculate_baselines: unique() keeps a nan key, and no row equals nan
calculate_baselines(S, end_date, window_days) ==
    LET start_date == end_date - window_days
        baseline_data ==
            {r \in S : r.date >= start_date /\ r.date <= end_date}
        categories == {r.dept : r \in baseline_data}
        locations  == {r.branch : r \in baseline_data}
    IN  [calculation_date |-> Ymd(end_date),
         window_days |-> window_days,
         start_date |-> Ymd(start_date),
         total_revenue |-> DailyRevenueStats(baseline_data),
         by_category |->
            [c \in categories |->
                DailyRevenueStats({r \in baseline_data :
                                    c # MissingCell /\ r.dept = c})],
         by_location |->
            [b \in locations |->
                DailyRevenueStats({r \in baseline_data :
                                    b # MissingCell /\ r.branch = b})]]

\* the default threshold_multiplier of detect_category_surge and of
\* detect_category_drought, in hundredths
SurgeMultiplier   == 200
DroughtMultiplier == 50

\* baseline.get('mean', 0)
BaselineMean(baseline) ==
    IF "mean" \in DOMAIN baseline THEN baseline.mean ELSE 0

\* round(observed_value / baseline_mean, 2) in hundredths, nan when one of
\* the two is nan
RoundedMultiplier(observed_value, baseline_mean) ==
    IF NaN \in {observed_value, baseline_mean} THEN NaN
    ELSE IF baseline_mean > 0
    THEN RoundDiv(100 * observed_value, baseline_mean)
    ELSE RoundDiv(-100 * observed_value, -baseline_mean)

\* a faulty surge test, against which C16 is checked: the threshold itself
\* is no surge
MultiplierAtLeast_Strict(observed_value, baseline_mean, threshold) ==
    /\ NaN \notin {observed_value, baseline_mean}
    /\ IF baseline_mean > 0
       THEN 100 * observed_value > threshold * baseline_mean
       ELSE 100 * observed_value < threshold * baseline_mean

\* observed_value / baseline_mean >= threshold_multiplier, the threshold in
\* hundredths and baseline_mean not 0: false when the quotient is nan
MultiplierAtLeast(observed_value, baseline_mean, threshold) ==
    /\ NaN \notin {observed_value, baseline_mean}
    /\ IF baseline_mean > 0
       THEN 100 * observed_value >= threshold * baseline_mean
       ELSE 100 * observed_value <= threshold * baseline_mean

\* observed_value / baseline_mean <= threshold_multiplier
MultiplierAtMost(observed_value, baseline_mean, threshold) ==
    /\ NaN \notin {observed_value, baseline_mean}
    /\ IF baseline_mean > 0
       THEN 100 * observed_value <= threshold * baseline_mean
       ELSE 100 * observed_value >= threshold * baseline_mean

\* detect_category_surge
detect_category_surge(category, observed_value, baseline, threshold_multiplier) ==
    LET baseline_mean == BaselineMean(baseline)
    IN  IF baseline_mean = 0 THEN [is_surge |-> FALSE]
        ELSE [is_surge |-> MultiplierAtLeast(observed_value, baseline_mean,
                                             threshold_multiplier),
              category |-> category,
              observed |-> observed_value,
              baseline_mean |-> baseline_mean,
              multiplier |-> RoundedMultiplier(observed_value, baseline_mean),
              threshold |-> threshold_multiplier]

\* detect_category_drought
detect_category_drought(category, observed_value, baseline, threshold_multiplier) ==
    LET baseline_mean == BaselineMean(baseline)
    IN  IF baseline_mean = 0 THEN [is_drought |-> FALSE]
        ELSE [is_drought |-> MultiplierAtMost(observed_value, baseline_mean,
                                              threshold_multiplier),
              category |-> category,
              observed |-> observed_value,
              baseline_mean |-> baseline_mean,
              multiplier |-> RoundedMultiplier(observed_value, baseline_mean),
              threshold |-> threshold_multiplier]

---------------------------------------------------------------------------
(* FeatureCache: cache is the set of <stem>.json files of the cache       *)
(* directory other than baselines.json, a function from the stems of the   *)
(* files to the documents in them.  A stem is the ISO form of a date.      *)

\* target_date.isoformat(), also str(target_date): the text YYYY-MM-DD,
\* kept as its three numbers
isoformat(target_date) == Ymd(target_date)

\* datetime.fromisoformat(file.stem).date()
fromisoformat(stem) == OrdinalOf(stem.year, stem.month, stem.day)

\* _get_filename: the stem of cache_dir / f"{target_date.isoformat()}.json"
_get_filename(target_date) == isoformat(target_date)

\* the stem of self.baselines_file = cache_dir / "baselines.json"
BaselinesStem == [name |-> "baselines"]

\* the content of a file that json.load cannot parse, and the exception
\* json.load raises on it
Malformed       == [malformed |-> TRUE]
JSONDecodeError == [raised |-> "JSONDecodeError"]

\* the key json.dump writes for a dict key: a str as it is, the float nan
\* (the key of the rows with a missing cell) as the text NaN
KeyText(k) == IF k = MissingCell THEN "NaN" ELSE k

\* a dict as json.dump writes it and json.load reads it: the keys as texts
\* (no cell of the tables of the model is the text NaN, so no two keys of a
\* dict have one text)
StrKeys(d) ==
    [t \in {KeyText(k) : k \in DOMAIN d} |->
        d[CHOOSE k \in DOMAIN d : KeyText(k) = t]]

\* json.dump(doc, f, indent=2, default=str): the document of the text
\* written.  Of the dicts of a bundle and of the baselines only by_category
\* and by_location are keyed by table cells; every other key is a str of the
\* code, and every value is a str, a number (nan included), None, a bool, a
\* list or a dict, which the text keeps as they are.
json_dump(doc) ==
    [doc EXCEPT !.by_category = StrKeys(@), !.by_location = StrKeys(@)]

\* a faulty read, against which C19 is checked: a text that cannot be
\* parsed is read as None
json_load_Lenient(text) == IF text = Malformed THEN NoData ELSE text

\* json.load(f): the document of the text, or JSONDecodeError
json_load(text) == IF text = Malformed THEN JSONDecodeError ELSE text

\* faulty cache lookups, against which C1 and C2 are checked: one that never
\* finds a file, one that looks for the file of the next day
has_features_Never(files, target_date) == FALSE

has_features_NextDay(files, target_date) ==
    _get_filename(target_date + 1) \in DOMAIN files

\* has_features: the file of the date exists
has_features(files, target_date) == _get_filename(target_date) \in DOMAIN files

\* a faulty save, against which C13 is checked: a file that exists is kept
save_daily_features_KeepFirst(files, features, target_date) ==
    [f \in DOMAIN files \cup {_get_filename(target_date)} |->
        IF f \in DOMAIN files THEN files[f] ELSE json_dump(features)]

\* save_daily_features: open(filename, 'w') creates or replaces the file
save_daily_features(files, features, target_date) ==
    [f \in DOMAIN files \cup {_get_filename(target_date)} |->
        IF f = _get_filename(target_date) THEN json_dump(features)
        ELSE files[f]]

\* load_daily_features: None when the file does not exist, else what
\* json.load gives (JSONDecodeError standing for the exception it raises)
load_daily_features(files, target_date) ==
    IF _get_filename(target_date) \notin DOMAIN files THEN NoData
    ELSE json_load(files[_get_filename(target_date)])

\* save_baselines: the content of baselines.json afterwards
save_baselines(baselines) == json_dump(baselines)

\* load_baselines on baselines.json with the content file (or Absent)
load_baselines(file) == IF file = Absent THEN NoData ELSE json_load(file)

\* self.cache_dir.glob("*.json"): the stems of the dated files and of
\* baselines.json when it exists
glob(files, file) ==
    DOMAIN files \cup (IF file = Absent THEN {} ELSE {BaselinesStem})

RECURSIVE SortedDates(_)
\* the dates of the stems, one for each stem, after dates.sort()
SortedDates(stems) ==
    IF stems = {} THEN <<>>
    ELSE LET f == CHOOSE f \in stems :
                    \A g \in stems : fromisoformat(f) <= fromisoformat(g)
         IN  <<fromisoformat(f)>> \o SortedDates(stems \ {f})

\* list_cached_dates: baselines.json is passed over, the other stems are
\* parsed, and the list is sorted
list_cached_dates(files, file) ==
    SortedDates({f \in glob(files, file) : f # BaselinesStem})

\* a faulty choice of the latest date, against which C15 is checked: the
\* first element of the list
LastOrNone_First(dates) == IF dates = <<>> THEN None ELSE dates[1]

\* the last element of dates, None for the empty list
LastOrNone(dates) == IF dates = <<>> THEN None ELSE dates[Len(dates)]

\* get_latest_cached_date
get_latest_cached_date(files, file) == LastOrNone(list_cached_dates(files, file))

RECURSIVE RangeFeaturesLoop(_, _, _, _)
\* a faulty loop body, against which C12 is checked: the loop ends at the
\* first date that has no file
RangeFeaturesStep_StopAtGap(files, current_date, end_date, features_list, features) ==
    IF features = JSONDecodeError
    THEN [features_list |-> features_list, raised |-> TRUE]
    ELSE IF features = NoData
    THEN [features_list |-> features_list, raised |-> FALSE]
    ELSE RangeFeaturesLoop(files, current_date + 1, end_date,
                           Append(features_list, features))

\* the body of the while loop of get_date_range_features, features being
\* what load_daily_features gave for current_date
RangeFeaturesStep(files, current_date, end_date, features_list, features) ==
    IF features = JSONDecodeError
    THEN [features_list |-> features_list, raised |-> TRUE]
    ELSE RangeFeaturesLoop(files, current_date + 1, end_date,
            IF features = NoData THEN features_list
            ELSE Append(features_list, features))

\* the while loop of get_date_range_features from current_date on
RangeFeaturesLoop(files, current_date, end_date, features_list) ==
    IF current_date > end_date
    THEN [features_list |-> features_list, raised |-> FALSE]
    ELSE RangeFeaturesStep(files, current_date, end_date, features_list,
                           load_daily_features(files, current_date))

\* get_date_range_features: the list returned (or built so far), and
\* whether json.load raised
get_date_range_features(files, start_date, end_date) ==
    RangeFeaturesLoop(files, start_date, end_date, <<>>)

\* a faulty eviction, against which C3 is checked: the cutoff date goes too
OldFiles_Inclusive(files, today, keep_days) ==
    LET cutoff_date == today - keep_days
    IN  {f \in DOMAIN files : fromisoformat(f) <= cutoff_date}

\* the files delete_old_cache unlinks
OldFiles(files, today, keep_days) ==
    LET cutoff_date == today - keep_days
    IN  {f \in DOMAIN files : fromisoformat(f) < cutoff_date}

\* a faulty eviction, against which C28 is checked: deleted counts every
\* dated file looked at, unlinked or not
delete_old_cache_CountsAll(files, today, keep_days) ==
    LET old == OldFiles(files, today, keep_days)
    IN  [files |-> [f \in DOMAIN files \ old |-> files[f]],
         deleted |-> Cardinality(DOMAIN files),
         unlinked |-> old]

\* delete_old_cache: the files left, the number deleted (the value returned)
\* and the stems of the files unlinked
delete_old_cache(files, today, keep_days) ==
    LET old == OldFiles(files, today, keep_days)
    IN  [files |-> [f \in DOMAIN files \ old |-> files[f]],
         deleted |-> Cardinality(old),
         unlinked |-> old]

---------------------------------------------------------------------------
(* build_alert_features.py *)

\* faulty baselines, against which C25 is checked: always as of the first
\* date of the table, whatever the start date of the run
build_baselines_AsOfFirstDate(S, as_of_date) ==
    calculate_baselines(S, FirstDate, BaselineWindowDays)

build_baselines(S, as_of_date) ==
    calculate_baselines(S, as_of_date, BaselineWindowDays)

\* a faulty build, against which C27 is checked: the bundle is returned as
\* aggregate_day made it, its anomalies left empty
Annotated_Unfilled(features, baselines) == features

\* features['anomalies'] = anomalies, unless aggregate_day gave None or raised
Annotated(features, baselines) ==
    IF features = ValueError THEN ValueError
    ELSE IF features = NoData THEN NoData
    ELSE [features EXCEPT
            !.anomalies = detect_daily_anomalies(features, baselines)]

\* build_daily_features: a fresh DailyAggregator (empty memo) aggregates the
\* day, and the detector fills the anomalies of the bundle
build_daily_features(S, target_date, baselines) ==
    Annotated(aggregate_day(EmptyDict, S, target_date).result, baselines)

---------------------------------------------------------------------------
(* The pipeline as a state machine *)

\* the sales tables of the pipeline runs: at most one line item a day
PipelineRows == Rows(Dates, {"OTC"}, {"Baggot St"}, Turnovers, {1})
PipelineTables ==
    {T \in SUBSET PipelineRows :
        \A r1, r2 \in T : r1.date = r2.date => r1 = r2}
\* the values date.today() takes
Todays == {LastDate}

NoRun == [pc |-> "idle", start_date |-> FirstDate, end_date |-> FirstDate,
          current_date |-> FirstDate, baselines |-> EmptyDict,
          success_count |-> 0, report |-> EmptyDict]

NoDelete == [today |-> 0, keep_days |-> 0, unlinked |-> {}, deleted |-> 0]

NoHist == [op |-> "none", second_run |-> FALSE, delete |-> NoDelete]

NoAgg == [memo |-> EmptyDict, called |-> FALSE, op |-> "none"]

NoDet == [fn |-> "none", done |-> FALSE]

Init ==
    /\ sales \in PipelineTables
    /\ cache = EmptyDict
    /\ baselines_file = Absent
    /\ run = NoRun
    /\ hist = NoHist
    /\ agg = NoAgg
    /\ det = NoDet

\* build_date_range up to its loop: the baselines as of start_date are
\* computed and saved.  Runs are sequential: none starts while one is in
\* its loop.  hist.second_run records that the run before this one was over
\* the same range and that nothing was evicted since (run still holds it).
StartRun(start_date, end_date) ==
    /\ run.pc # "loop"
    /\ LET baselines == build_baselines(sales, start_date)
       IN  /\ baselines_file' = save_baselines(baselines)
           /\ run' = [pc |-> "loop", start_date |-> start_date,
                      end_date |-> end_date, current_date |-> start_date,
                      baselines |-> baselines, success_count |-> 0,
                      report |-> EmptyDict]
    /\ hist' = [op |-> "build_date_range",
                second_run |-> /\ run.pc # "idle"
                               /\ run.start_date = start_date
                               /\ run.end_date = end_date,
                delete |-> NoDelete]
    /\ UNCHANGED <<sales, cache, agg, det>>

\* what the run prints about current_date
Reported(r, outcome) ==
    [d \in DOMAIN r.report \cup {r.current_date} |->
        IF d = r.current_date THEN outcome ELSE r.report[d]]

\* the body of the while loop of build_date_range, features being what
\* build_daily_features gives for current_date when it is called
LoopBody(current_date, features) ==
    IF has_features(cache, current_date)
    THEN /\ run' = [run EXCEPT !.report = Reported(run, "already cached"),
                               !.current_date = current_date + 1]
         /\ UNCHANGED cache
    ELSE IF features = ValueError
    THEN /\ run' = [run EXCEPT !.pc = "raised"]
         /\ UNCHANGED cache
    ELSE IF features = NoData
    THEN /\ run' = [run EXCEPT !.report = Reported(run, "no data"),
                               !.current_date = current_date + 1]
         /\ UNCHANGED cache
    ELSE /\ cache' = save_daily_features(cache, features, current_date)
         /\ run' = [run EXCEPT !.report = Reported(run, "saved"),
                               !.success_count = run.success_count + 1,
                               !.current_date = current_date + 1]

\* one iteration of the while loop of build_date_range
LoopIteration ==
    /\ run.pc = "loop"
    /\ run.current_date <= run.end_date
    /\ LoopBody(run.current_date,
                build_daily_features(sales, run.current_date, run.baselines))
    /\ UNCHANGED <<sales, baselines_file, hist, agg, det>>

\* the loop of build_date_range ends and the function returns
FinishRun ==
    /\ run.pc = "loop"
    /\ run.current_date > run.end_date
    /\ run' = [run EXCEPT !.pc = "done"]
    /\ UNCHANGED <<sales, cache, baselines_file, hist, agg, det>>

\* the effect of delete_old_cache, r being what it gives.  The record of
\* the run before is history only, and an eviction ends it: the next run is
\* no "second run with no eviction in between".
Deleted(keep_days, today, r) ==
    /\ cache' = r.files
    /\ run' = IF r.deleted > 0 THEN NoRun ELSE run
    /\ hist' = [op |-> "delete_old_cache",
                second_run |-> hist.second_run /\ r.deleted = 0,
                delete |-> [today |-> today, keep_days |-> keep_days,
                            unlinked |-> r.unlinked, deleted |-> r.deleted]]

\* cache.delete_old_cache(keep_days) on a day date.today() = today
DeleteOldCache(keep_days, today) ==
    /\ run.pc # "loop"
    /\ Deleted(keep_days, today, delete_old_cache(cache, today, keep_days))
    /\ UNCHANGED <<sales, baselines_file, agg, det>>

Next ==
    \/ \E start_date, end_date \in Dates : StartRun(start_date, end_date)
    \/ LoopIteration
    \/ FinishRun
    \/ \E keep_days \in 0 .. MaxKeepDays, today \in Todays :
          DeleteOldCache(keep_days, today)

Spec == Init /\ [][Next]_vars

---------------------------------------------------------------------------
(* Two runs of build_date_range at once on one cache directory and one     *)
(* sales table.  run maps each of the two runs to its position: before the *)
(* baselines ("start"), at the test of has_features ("check"), between the *)
(* test and the write ("build"), or ended.  hist.writes maps a date to the *)
(* runs that wrote its file, in the order of the writes.  With hist.locked *)
(* the test and the write of one date are made atomic per date: a run      *)
(* waits at the test of a date while the other is between its test and its *)
(* write of that date.                                                     *)

Procs == {1, 2}

\* the sales tables of the two runs: at most one line item a day, all of
\* one size
RaceTables == {T \in PipelineTables : \A r \in T : r.turnover = 1000}

\* the ranges of the first run: it starts on the first date of the window
FirstRunRanges == {<<FirstDate, end_date>> : end_date \in Dates}

RaceRanges(p) == IF p = 1 THEN FirstRunRanges ELSE Dates \X Dates

InitRace ==
    /\ sales \in RaceTables
    /\ cache = EmptyDict
    /\ baselines_file = Absent
    /\ \E r1 \in RaceRanges(1), r2 \in RaceRanges(2) :
          run = [p \in Procs |->
                  [pc |-> "start",
                   start_date |-> IF p = 1 THEN r1[1] ELSE r2[1],
                   end_date |-> IF p = 1 THEN r1[2] ELSE r2[2],
                   current_date |-> IF p = 1 THEN r1[1] ELSE r2[1],
                   baselines |-> EmptyDict]]
    /\ \E locked \in BOOLEAN :
          hist = [locked |-> locked, writes |-> [d \in Dates |-> <<>>]]
    /\ agg = NoAgg
    /\ det = NoDet

\* run p computes the baselines as of its start date and saves them
BeginRun(p) ==
    /\ run[p].pc = "start"
    /\ baselines_file' = save_baselines(build_baselines(sales, run[p].start_date))
    /\ run' = [run EXCEPT ![p].pc = "check",
                          ![p].baselines =
                              build_baselines(sales, run[p].start_date)]
    /\ UNCHANGED <<sales, cache, hist, agg, det>>

\* run p has to wait at the test of its date: the other run is between its
\* test and its write of that date, and the two are atomic per date
Blocked(p) ==
    /\ hist.locked
    /\ \E q \in Procs \ {p} :
          /\ run[q].pc = "build"
          /\ run[q].current_date = run[p].current_date

\* run p tests cache.has_features(current_date)
CheckCached(p) ==
    /\ run[p].pc = "check"
    /\ run[p].current_date <= run[p].end_date
    /\ ~Blocked(p)
    /\ run' = IF has_features(cache, run[p].current_date)
              THEN [run EXCEPT ![p].current_date = @ + 1]
              ELSE [run EXCEPT ![p].pc = "build"]
    /\ UNCHANGED <<sales, cache, baselines_file, hist, agg, det>>

\* the rest of the loop body of run p after has_features gave False,
\* features being what build_daily_features gives for current_date
BuildBody(p, current_date, features) ==
    IF features = ValueError
    THEN /\ run' = [run EXCEPT ![p].pc = "raised"]
         /\ UNCHANGED <<cache, hist>>
    ELSE IF features = NoData
    THEN /\ run' = [run EXCEPT ![p].pc = "check",
                               ![p].current_date = current_date + 1]
         /\ UNCHANGED <<cache, hist>>
    ELSE /\ cache' = save_daily_features(cache, features, current_date)
         /\ hist' = [hist EXCEPT !.writes[current_date] = Append(@, p)]
         /\ run' = [run EXCEPT ![p].pc = "check",
                               ![p].current_date = current_date + 1]

\* run p builds the features of current_date and saves them
BuildAndSave(p) ==
    /\ run[p].pc = "build"
    /\ BuildBody(p, run[p].current_date,
                 build_daily_features(sales, run[p].current_date,
                                      run[p].baselines))
    /\ UNCHANGED <<sales, baselines_file, agg, det>>

\* the loop of run p ends
EndRun(p) ==
    /\ run[p].pc = "check"
    /\ run[p].current_date > run[p].end_date
    /\ run' = [run EXCEPT ![p].pc = "done"]
    /\ UNCHANGED <<sales, cache, baselines_file, hist, agg, det>>

NextRace ==
    \/ \E p \in Procs : BeginRun(p)
    \/ \E p \in Procs : CheckCached(p)
    \/ \E p \in Procs : BuildAndSave(p)
    \/ \E p \in Procs : EndRun(p)

SpecRace == InitRace /\ [][NextRace]_vars

---------------------------------------------------------------------------
(* The aggregator on its own: one DailyAggregator over a sales table, and  *)
(* calls of aggregate_day on it.                                           *)

\* the sales tables of the aggregator: the last two dates of the window,
\* every category (or none), line items of different size
AggRows == Rows({LastDate - 1, LastDate}, Depts \cup {MissingCell},
                {"Baggot St"}, Turnovers, Qtys)

InitAgg ==
    /\ sales \in Tables(AggRows)
    /\ cache = EmptyDict
    /\ baselines_file = Absent
    /\ run = NoRun
    /\ hist = NoHist
    /\ agg = NoAgg
    /\ det = NoDet

\* the aggregator after aggregate_day gave r
Aggregated(target_date, r) ==
    agg' = [memo |-> r.memo, called |-> TRUE, op |-> "aggregate_day",
            target_date |-> target_date, result |-> r.result]

\* aggregator.aggregate_day(target_date)
AggregateDay(target_date) ==
    /\ Aggregated(target_date, aggregate_day(agg.memo, sales, target_date))
    /\ UNCHANGED <<sales, cache, baselines_file, run, hist, det>>

\* the aggregator after aggregate_date_range ended as r says
RangeAggregated(start_date, end_date, r) ==
    agg' = [memo |-> r.memo, called |-> TRUE, op |-> "aggregate_date_range",
            start_date |-> start_date, end_date |-> end_date,
            raised |-> r.raised, features_list |-> r.features_list]

\* aggregator.aggregate_date_range(start_date, end_date)
AggregateDateRange(start_date, end_date) ==
    /\ RangeAggregated(start_date, end_date,
            aggregate_date_range(agg.memo, sales, start_date, end_date))
    /\ UNCHANGED <<sales, cache, baselines_file, run, hist, det>>

NextAgg ==
    \/ \E target_date \in Dates : AggregateDay(target_date)
    \/ \E start_date, end_date \in Dates :
          AggregateDateRange(start_date, end_date)

SpecAgg == InitAgg /\ [][NextAgg]_vars

---------------------------------------------------------------------------
(* Aggregating again: calls of aggregate_day on aggregators made from one  *)
(* sales table, each call with the reading of the clock, the result of the *)
(* call before being kept in agg.previous.                                 *)

\* the bound on the readings of the clock
MaxClock == 2

\* the sales tables: rows of the day before the last leap day and of the
\* day before it, so that the day aggregated has a yesterday with sales
AgainRows == Rows({LastDate - 2, LastDate - 1}, Depts \cup {MissingCell},
                  {"Baggot St"}, Turnovers, {1})

InitAgain ==
    /\ sales \in Tables(AgainRows)
    /\ cache = EmptyDict
    /\ baselines_file = Absent
    /\ run = NoRun
    /\ hist = NoHist
    /\ agg = [memo |-> EmptyDict, called |-> FALSE, op |-> "none",
              previous |-> NoData]
    /\ det = NoDet

\* the call of aggregate_day before this one, if there was one
LastCall ==
    IF agg.op = "aggregate_day"
    THEN [target_date |-> agg.target_date, result |-> agg.result]
    ELSE agg.previous

\* the aggregator after aggregate_day gave r at the time now
AggregatedAt(target_date, now, r) ==
    agg' = [memo |-> r.memo, called |-> TRUE, op |-> "aggregate_day",
            target_date |-> target_date, result |-> Stamped(r.result, now),
            fresh |-> agg.memo = EmptyDict, previous |-> LastCall]

\* aggregator.aggregate_day(target_date) when the clock reads now
AggregateDayAt(target_date, now) ==
    /\ AggregatedAt(target_date, now,
                    aggregate_day(agg.memo, sales, target_date))
    /\ UNCHANGED <<sales, cache, baselines_file, run, hist, det>>

\* aggregator = DailyAggregator(sales_df): a new aggregator of the table
NewAggregator ==
    /\ agg.op = "aggregate_day"
    /\ agg' = [memo |-> EmptyDict, called |-> FALSE, op |-> "__init__",
               previous |-> LastCall]
    /\ UNCHANGED <<sales, cache, baselines_file, run, hist, det>>

NextAgain ==
    \/ \E target_date \in Dates, now \in 1 .. MaxClock :
          AggregateDayAt(target_date, now)
    \/ NewAggregator

SpecAgain == InitAgain /\ [][NextAgain]_vars

---------------------------------------------------------------------------
(* The detector on its own: det holds one call, its arguments drawn in the *)
(* initial state, and the step applies the function.                       *)

Call(fn, args) == [fn |-> fn, args |-> args, done |-> FALSE]

\* the factors k, in thousandths: the small ones and a few of the size of
\* the classification thresholds
KMillis == (-MaxKMilli .. MaxKMilli) \cup {-3000, 1500, 2505}

\* calculate_z_score(mean + k * std, mean, std): k in thousandths, the std a
\* whole number of units and the other amounts in thousandths of a unit
\* (with std = 0 the value is mean + k thousandths)
ZScoreCalls ==
    {Call("calculate_z_score",
          [value |-> mean + k * (IF std = 0 THEN 1 ELSE std),
           baseline_mean |-> mean,
           baseline_std |-> 1000 * std, k_milli |-> k]) :
        mean \in {0, 5000}, std \in 0 .. MaxStd, k \in KMillis}

ClassifyCalls ==
    {Call("classify_anomaly", [z_score |-> z]) :
        z \in (-MaxZ .. MaxZ) \cup {NaN}}

\* lists of anomaly records, of which the rule reads the classification
RECURSIVE AnomalyLists(_)
AnomalyLists(n) ==
    IF n = 0 THEN {<<>>}
    ELSE AnomalyLists(n - 1) \cup
         {Append(l, [classification |-> c]) :
            l \in {x \in AnomalyLists(n - 1) : Len(x) = n - 1},
            c \in {"critical_anomaly", "significant_anomaly", "minor_anomaly"}}

MultidimensionalCalls ==
    {Call("_check_multidimensional_anomaly",
          [category_anomalies |-> cats, location_anomalies |-> locs,
           total_revenue_z |-> z]) :
        cats \in AnomalyLists(MaxAnomalies),
        locs \in AnomalyLists(MaxAnomalies),
        z \in {None, NaN, 0, 100, 200, 201, -200, -250}}

\* dicts over some of the keys, with values from vals
Dicts(keys, vals) == UNION {[ks -> vals] : ks \in SUBSET keys}

\* by_category / by_location of a bundle, and of the baselines
ObservedMetrics == [revenue : {1000, 1700, 2300}]
BaselineStats   == [mean : {1000}, std : {0, 400, NaN}]

\* bundles as far as detect_daily_anomalies reads them
DetectFeatures ==
    {[by_category |-> c, by_location |-> l] :
        c \in Dicts(Depts, ObservedMetrics),
        l \in Dicts({"Baggot St"}, ObservedMetrics)}
    \cup
    {[daily_totals |-> [total_revenue |-> t], by_category |-> c,
      by_location |-> l] :
        t \in {1000, 1700, 2300},
        c \in Dicts(Depts, ObservedMetrics),
        l \in Dicts({"Baggot St"}, ObservedMetrics)}

DetectBaselines ==
    {[by_category |-> c, by_location |-> l] :
        c \in Dicts(Depts, BaselineStats),
        l \in Dicts({"Baggot St"}, BaselineStats)}
    \cup
    {[total_revenue |-> t, by_category |-> c, by_location |-> l] :
        t \in BaselineStats,
        c \in Dicts(Depts, BaselineStats),
        l \in Dicts({"Baggot St"}, BaselineStats)}

DetectCalls ==
    {Call("detect_daily_anomalies", [daily_features |-> f, baselines |-> b]) :
        f \in DetectFeatures, b \in DetectBaselines}

\* the observed values and the baselines of the surge and drought calls:
\* quotients at, just under and just over the default thresholds, a baseline
\* without mean, with mean 0, with a nan mean and with a negative mean
Observeds == {NaN, 0, 400, 500, 501, 1600, 1999, 2000, 2001, -2000}

RatioBaselines ==
    {[std |-> 0]} \cup [mean : {0, NaN, 1000, -1000, 800}]

SurgeCalls ==
    {Call("detect_category_surge",
          [category |-> "OTC", observed_value |-> o, baseline |-> b,
           threshold_multiplier |-> t]) :
        o \in Observeds, b \in RatioBaselines, t \in {SurgeMultiplier, 150}}

DroughtCalls ==
    {Call("detect_category_drought",
          [category |-> "OTC", observed_value |-> o, baseline |-> b,
           threshold_multiplier |-> t]) :
        o \in Observeds, b \in RatioBaselines, t \in {DroughtMultiplier, 25}}

InitDetect ==
    /\ sales = {}
    /\ cache = EmptyDict
    /\ baselines_file = Absent
    /\ run = NoRun
    /\ hist = NoHist
    /\ agg = NoAgg
    /\ det \in ZScoreCalls \cup ClassifyCalls \cup MultidimensionalCalls
               \cup DetectCalls \cup SurgeCalls \cup DroughtCalls

\* the call of det returns out
Returns(out) ==
    /\ det' = [fn |-> det.fn, args |-> det.args, done |-> TRUE, out |-> out]
    /\ UNCHANGED <<sales, cache, baselines_file, run, hist, agg>>

CalculateZScore ==
    /\ det.fn = "calculate_z_score" /\ ~det.done
    /\ Returns(calculate_z_score(det.args.value, det.args.baseline_mean,
                                 det.args.baseline_std))

ClassifyAnomaly ==
    /\ det.fn = "classify_anomaly" /\ ~det.done
    /\ Returns(classify_anomaly(det.args.z_score))

CheckMultidimensionalAnomaly ==
    /\ det.fn = "_check_multidimensional_anomaly" /\ ~det.done
    /\ Returns(_check_multidimensional_anomaly(det.args))

DetectDailyAnomalies ==
    /\ det.fn = "detect_daily_anomalies" /\ ~det.done
    /\ Returns(detect_daily_anomalies(det.args.daily_features,
                                      det.args.baselines))

DetectCategorySurge ==
    /\ det.fn = "detect_category_surge" /\ ~det.done
    /\ Returns(detect_category_surge(det.args.category,
            det.args.observed_value, det.args.baseline,
            det.args.threshold_multiplier))

DetectCategoryDrought ==
    /\ det.fn = "detect_category_drought" /\ ~det.done
    /\ Returns(detect_category_drought(det.args.category,
            det.args.observed_value, det.args.baseline,
            det.args.threshold_multiplier))

NextDetect ==
    \/ CalculateZScore
    \/ ClassifyAnomaly
    \/ CheckMultidimensionalAnomaly
    \/ DetectDailyAnomalies
    \/ DetectCategorySurge
    \/ DetectCategoryDrought

SpecDetect == InitDetect /\ [][NextDetect]_vars

---------------------------------------------------------------------------
(* AlertFeatureCalculator.get_supply_disruption_features, on its own: det  *)
(* holds one call on a calculator made without inventory_df.  A row of its *)
(* table is a sale with its date, its supplier (the OrderList cell, which  *)
(* may be missing), its product, its category and its turnover in          *)
(* hundredths.                                                             *)

\* the bound on the rows of the table of a call
MaxSupplyRows == 2

\* the share below which a supplier is not tracked, and the shares above
\* which it is CRITICAL, HIGH and MEDIUM, in percent
TrackedPct  == 1
CriticalPct == 15
HighPct     == 5
MediumPct   == 2

\* sales_df restricted to one_year_ago <= date <= as_of_date
SupplyWindow(S, as_of_date) ==
    {r \in S : r.date >= LastYear(as_of_date) /\ r.date <= as_of_date}

\* the number of values of a column in rows R, nan not counted (nunique)
NUnique(R, col) == Cardinality(GroupKeys(R, col))

\* a faulty ranking, against which C17 is checked: the thresholds included
Criticality_Inclusive(revenue, total_revenue) ==
    IF 100 * revenue >= CriticalPct * total_revenue THEN "CRITICAL"
    ELSE IF 100 * revenue >= HighPct * total_revenue THEN "HIGH"
    ELSE IF 100 * revenue >= MediumPct * total_revenue THEN "MEDIUM"
    ELSE "LOW"

\* criticality of revenue_pct = revenue / total_revenue, total_revenue > 0
Criticality(revenue, total_revenue) ==
    IF 100 * revenue > CriticalPct * total_revenue THEN "CRITICAL"
    ELSE IF 100 * revenue > HighPct * total_revenue THEN "HIGH"
    ELSE IF 100 * revenue > MediumPct * total_revenue THEN "MEDIUM"
    ELSE "LOW"

\* whether the loop passes over a supplier: revenue_pct < 0.01, where
\* revenue_pct is 0 unless total_revenue > 0
NotTracked(revenue, total_revenue) ==
    IF total_revenue > 0 THEN 100 * revenue < TrackedPct * total_revenue
    ELSE TRUE

\* the entry of a supplier that is tracked: revenue_dependency in
\* ten-thousandths, monthly_spend_estimate in hundredths (the turnovers of
\* the calls are multiples of 0.12, so the twelfth is a whole number of
\* hundredths)
SupplierEntry(rows, total_revenue) ==
    [revenue_dependency |-> RoundDiv(10000 * SumTurnover(rows), total_revenue),
     product_count |-> NUnique(rows, "product"),
     category_count |-> NUnique(rows, "dept"),
     monthly_spend_estimate |-> RoundDiv(SumTurnover(rows), 12),
     criticality_rank |-> Criticality(SumTurnover(rows), total_revenue)]

\* supplier_criticality: groupby('OrderList') leaves out the rows without
\* supplier, total_revenue counts them
SupplierCriticality(sales_data) ==
    LET total_revenue == SumTurnover(sales_data)
        By(supplier)  == {r \in sales_data : r.supplier = supplier}
        tracked == {supplier \in GroupKeys(sales_data, "supplier") :
                      ~NotTracked(SumTurnover(By(supplier)), total_revenue)}
    IN  [supplier \in tracked |-> SupplierEntry(By(supplier), total_revenue)]

\* get_supply_disruption_features: None for a table without the column
\* OrderList, ValueError when as_of_date.replace raises
get_supply_disruption_features(sales_df, has_OrderList, as_of_date) ==
    IF ~has_OrderList THEN NoData
    ELSE IF ReplaceRaises(as_of_date) THEN ValueError
    ELSE [as_of_date |-> isoformat(as_of_date),
          supplier_criticality |->
              SupplierCriticality(SupplyWindow(sales_df, as_of_date))]

\* the rows of the tables of the calls: dated on the first day of the
\* twelve months before 2024-02-28 or the day before it; turnovers that make
\* shares of exactly 1, 2, 5 and 15 percent, and shares next to them
SupplyDates     == {OrdinalOf(2023, 2, 27), OrdinalOf(2023, 2, 28)}
SupplySuppliers == {"Uniphar", "United Drug", MissingCell}
SupplyTurnovers == {0, 108, 120, 240, 600, 1800,
                    10200, 11400, 11760, 11880}

SupplyRows ==
    [date : SupplyDates, supplier : SupplySuppliers, product : {"Panadol"},
     dept : {"OTC"}, turnover : SupplyTurnovers]

RECURSIVE SupplyTables(_)
\* the tables of at most n rows
SupplyTables(n) ==
    IF n = 0 THEN {{}}
    ELSE LET smaller == SupplyTables(n - 1)
         IN  smaller \cup {T \cup {r} : T \in smaller, r \in SupplyRows}

SupplyCalls ==
    {Call("get_supply_disruption_features",
          [sales_df |-> S, has_OrderList |-> c, as_of_date |-> d]) :
        S \in SupplyTables(MaxSupplyRows),
        c \in BOOLEAN, d \in {LastDate - 1, LastDate}}

InitSupply ==
    /\ sales = {}
    /\ cache = EmptyDict
    /\ baselines_file = Absent
    /\ run = NoRun
    /\ hist = NoHist
    /\ agg = NoAgg
    /\ det \in SupplyCalls

GetSupplyDisruptionFeatures ==
    /\ det.fn = "get_supply_disruption_features" /\ ~det.done
    /\ Returns(get_supply_disruption_features(det.args.sales_df,
            det.args.has_OrderList, det.args.as_of_date))

NextSupply == GetSupplyDisruptionFeatures

SpecSupply == InitSupply /\ [][NextSupply]_vars

---------------------------------------------------------------------------
(* AlertFeatureCalculator._calculate_inventory_health, on its own: det     *)
(* holds one call.  inventory_df is None (NoData) or a table whose rows    *)
(* have a category, a location and a stock level in units; the daily       *)
(* consumption rates are in tenths of a unit, the days of supply in tenths *)
(* of a day.                                                               *)

\* the bound on the rows of the inventory of a call
MaxInventoryRows == 2

\* the days of supply below which an alert is needed
AlertDays == 5

RECURSIVE SumStock(_)
\* category_inventory['Branch Stock Level'].sum()
SumStock(R) ==
    IF R = {} THEN 0
    ELSE LET r == CHOOSE x \in R : TRUE
         IN  r.stock + SumStock(R \ {r})

\* daily_units > 0, which is false of nan
RatePositive(daily_units) == daily_units # NaN /\ daily_units > 0

\* round(stock / daily_units, 1) if daily_units > 0 else None
DaysOfSupply(stock, daily_units) ==
    IF RatePositive(daily_units) THEN RoundDiv(100 * stock, daily_units)
    ELSE None

\* a faulty alert, against which C24 is checked: the days of supply are
\* compared before they are rounded
AlertNeeded_Unrounded(total_stock, spike_daily_units) ==
    IF RatePositive(spike_daily_units)
    THEN 10 * total_stock < AlertDays * spike_daily_units
    ELSE FALSE

\* health['alert_needed']
AlertNeeded(total_stock, spike_daily_units) ==
    IF RatePositive(spike_daily_units)
    THEN DaysOfSupply(total_stock, spike_daily_units) < 10 * AlertDays
    ELSE FALSE

\* health['by_location']: a later row of a location replaces an earlier one
\* (the inventories of the calls have one row for a category and location)
LocationHealth(category_inventory, normal_daily_units, spike_daily_units) ==
    [location \in {r.branch : r \in category_inventory} |->
        LET row == CHOOSE r \in category_inventory : r.branch = location
        IN  [stock |-> row.stock,
             days_normal |-> DaysOfSupply(row.stock, normal_daily_units),
             days_spike |-> DaysOfSupply(row.stock, spike_daily_units)]]

\* the health dict of the rows of the category
InventoryHealth(category_inventory, normal_daily_units, spike_daily_units) ==
    [total_current_stock |-> SumStock(category_inventory),
     normal_daily_consumption |-> normal_daily_units,
     spike_daily_consumption |-> spike_daily_units,
     days_of_supply_normal |->
         DaysOfSupply(SumStock(category_inventory), normal_daily_units),
     days_of_supply_outbreak |->
         DaysOfSupply(SumStock(category_inventory), spike_daily_units),
     alert_needed |->
         AlertNeeded(SumStock(category_inventory), spike_daily_units),
     by_location |-> LocationHealth(category_inventory, normal_daily_units,
                                    spike_daily_units)]

\* _calculate_inventory_health: {} for a calculator without inventory_df
_calculate_inventory_health(inventory_df, category, normal_daily_units, spike_daily_units) ==
    IF inventory_df = NoData THEN EmptyDict
    ELSE InventoryHealth({r \in inventory_df.rows : r.dept = category},
                         normal_daily_units, spike_daily_units)

\* the inventories of the calls: at most one row for a category and a
\* location; stock levels that give 4.9, 4.95, 5.0 and 5.1 days of supply at
\* the outbreak rates of the calls, alone or with the stock of the other
\* location
StockLevels      == {0, 22, 24, 98, 99, 100, 102}
OtherStockLevels == {0, 76, 78}

InventoryRows ==
    [dept : Depts, branch : {"Baggot St"}, stock : StockLevels]
    \cup [dept : Depts, branch : {"Dundrum"}, stock : OtherStockLevels]

RECURSIVE Inventories(_)
Inventories(n) ==
    IF n = 0 THEN {{}}
    ELSE LET smaller == Inventories(n - 1)
             more == {T \cup {r} : T \in smaller, r \in InventoryRows}
         IN  smaller \cup
             {T \in more : \A x, y \in T :
                 (x.dept = y.dept /\ x.branch = y.branch) => x = y}

\* the rates of the calls, in tenths: none, nan (no sales in the last 30
\* days), negative, and 1.0, 4.5 and 20.0 units a day
DailyRates == {0, NaN, -45, 10, 45, 200}

HealthCalls ==
    {Call("_calculate_inventory_health",
          [inventory_df |-> inv, category |-> "OTC",
           normal_daily_units |-> n, spike_daily_units |-> k]) :
        inv \in {[rows |-> T] : T \in Inventories(MaxInventoryRows)}
                \cup {NoData},
        n \in {0, NaN, 10}, k \in DailyRates}

InitHealth ==
    /\ sales = {}
    /\ cache = EmptyDict
    /\ baselines_file = Absent
    /\ run = NoRun
    /\ hist = NoHist
    /\ agg = NoAgg
    /\ det \in HealthCalls

CalculateInventoryHealth ==
    /\ det.fn = "_calculate_inventory_health" /\ ~det.done
    /\ Returns(_calculate_inventory_health(det.args.inventory_df,
            det.args.category, det.args.normal_daily_units,
            det.args.spike_daily_units))

NextHealth == CalculateInventoryHealth

SpecHealth == InitHealth /\ [][NextHealth]_vars

---------------------------------------------------------------------------
(* The historical context: det holds one call of aggregate_day on a new    *)
(* aggregator whose table has sales on the target date and on dates at and *)
(* next to the ends of the windows before it.                              *)

\* the dates of the rows: the days 57, 56, 49, 30, 29, 8, 7, 6, 1 and 0
\* before 2024-02-28
ContextDates ==
    {LastDate - 1 - back : back \in {57, 56, 49, 30, 29, 8, 7, 6, 1, 0}}

ContextRows == Rows(ContextDates, {"OTC"}, {"Baggot St"}, Turnovers, {1})

ContextCalls ==
    {Call("aggregate_day", [sales_df |-> S, target_date |-> d]) :
        S \in Tables(ContextRows), d \in {LastDate - 2, LastDate - 1}}

InitContext ==
    /\ sales = {}
    /\ cache = EmptyDict
    /\ baselines_file = Absent
    /\ run = NoRun
    /\ hist = NoHist
    /\ agg = NoAgg
    /\ det \in ContextCalls

\* DailyAggregator(sales_df).aggregate_day(target_date)
AggregateDayOf ==
    /\ det.fn = "aggregate_day" /\ ~det.done
    /\ Returns(aggregate_day(EmptyDict, det.args.sales_df,
                             det.args.target_date).result)

NextContext == AggregateDayOf

SpecContext == InitContext /\ [][NextContext]_vars

---------------------------------------------------------------------------
(* The cache on its own: the operations of one FeatureCache on a cache     *)
(* directory that is empty at first.  hist holds the last operation with   *)
(* its arguments and result, and the record of what was saved: saved maps  *)
(* a date to the features last handed to save_daily_features for it,       *)
(* unless its file was deleted since (then the date is in evicted), and    *)
(* saved_baselines is the document last handed to save_baselines.          *)

\* a one-row sales table, from which the documents saved are built
OneRowTable(date, dept) ==
    {[date |-> date, dept |-> dept, branch |-> "Baggot St",
      turnover |-> 1000, qty |-> 1]}

\* bundles as build_daily_features gives them, and baselines as
\* build_baselines gives them, for a table with or without category
CacheBundles ==
    {build_daily_features(OneRowTable(LastDate - 1, dept), LastDate - 1,
        build_baselines(OneRowTable(LastDate - 1, dept), LastDate - 1)) :
     dept \in {"OTC", MissingCell}}

CacheBaselines ==
    {build_baselines(OneRowTable(LastDate - 1, dept), LastDate - 1) :
     dept \in {"OTC", MissingCell}}

NoCacheHist == [op |-> "none", saved |-> EmptyDict, evicted |-> {},
                saved_baselines |-> Absent]

InitCache ==
    /\ sales = {}
    /\ cache = EmptyDict
    /\ baselines_file = Absent
    /\ run = NoRun
    /\ hist = NoCacheHist
    /\ agg = NoAgg
    /\ det = NoDet

\* hist after an operation that writes nothing
ReadHist(op, args, out) ==
    [op |-> op, args |-> args, out |-> out, saved |-> hist.saved,
     evicted |-> hist.evicted, saved_baselines |-> hist.saved_baselines]

\* cache.save_daily_features(features, target_date)
SaveDailyFeatures(features, target_date) ==
    /\ cache' = save_daily_features(cache, features, target_date)
    /\ hist' = [op |-> "save_daily_features",
                args |-> [features |-> features, target_date |-> target_date],
                replaced |-> /\ has_features(cache, target_date)
                             /\ cache[_get_filename(target_date)]
                                   # json_dump(features),
                saved |-> [d \in DOMAIN hist.saved \cup {target_date} |->
                            IF d = target_date THEN features
                            ELSE hist.saved[d]],
                evicted |-> hist.evicted \ {target_date},
                saved_baselines |-> hist.saved_baselines]
    /\ UNCHANGED <<sales, baselines_file, run, agg, det>>

\* cache.load_daily_features(target_date)
LoadDailyFeatures(target_date) ==
    /\ hist' = ReadHist("load_daily_features", [target_date |-> target_date],
                        load_daily_features(cache, target_date))
    /\ UNCHANGED <<sales, cache, baselines_file, run, agg, det>>

\* cache.save_baselines(baselines)
SaveBaselines(baselines) ==
    /\ baselines_file' = save_baselines(baselines)
    /\ hist' = [op |-> "save_baselines", args |-> [baselines |-> baselines],
                saved |-> hist.saved, evicted |-> hist.evicted,
                saved_baselines |-> baselines]
    /\ UNCHANGED <<sales, cache, run, agg, det>>

\* cache.load_baselines()
LoadBaselines ==
    /\ hist' = ReadHist("load_baselines", EmptyDict,
                        load_baselines(baselines_file))
    /\ UNCHANGED <<sales, cache, baselines_file, run, agg, det>>

\* cache.list_cached_dates()
ListCachedDates ==
    /\ hist' = ReadHist("list_cached_dates", EmptyDict,
                        list_cached_dates(cache, baselines_file))
    /\ UNCHANGED <<sales, cache, baselines_file, run, agg, det>>

\* cache.get_latest_cached_date()
GetLatestCachedDate ==
    /\ hist' = ReadHist("get_latest_cached_date", EmptyDict,
                        get_latest_cached_date(cache, baselines_file))
    /\ UNCHANGED <<sales, cache, baselines_file, run, agg, det>>

\* cache.get_date_range_features(start_date, end_date)
GetDateRangeFeatures(start_date, end_date) ==
    /\ hist' = ReadHist("get_date_range_features",
                        [start_date |-> start_date, end_date |-> end_date],
                        get_date_range_features(cache, start_date, end_date))
    /\ UNCHANGED <<sales, cache, baselines_file, run, agg, det>>

\* the effect of delete_old_cache on the cache on its own, r being what it
\* gives; again records that the operation before was delete_old_cache too,
\* with the same keep_days on the same day
Evicted(keep_days, today, r) ==
    /\ cache' = r.files
    /\ hist' = [op |-> "delete_old_cache",
                args |-> [keep_days |-> keep_days, today |-> today],
                out |-> r.deleted,
                again |-> /\ hist.op = "delete_old_cache"
                          /\ hist.args = [keep_days |-> keep_days,
                                          today |-> today],
                saved |-> [d \in {d \in DOMAIN hist.saved :
                                    _get_filename(d) \notin r.unlinked} |->
                            hist.saved[d]],
                evicted |-> hist.evicted \cup
                            {d \in DOMAIN hist.saved :
                                _get_filename(d) \in r.unlinked},
                saved_baselines |-> hist.saved_baselines]

\* cache.delete_old_cache(keep_days) on a day date.today() = today
EvictOldCache(keep_days, today) ==
    /\ Evicted(keep_days, today, delete_old_cache(cache, today, keep_days))
    /\ UNCHANGED <<sales, baselines_file, run, agg, det>>

NextCache ==
    \/ \E features \in CacheBundles, target_date \in Dates :
          SaveDailyFeatures(features, target_date)
    \/ \E target_date \in Dates : LoadDailyFeatures(target_date)
    \/ \E baselines \in CacheBaselines : SaveBaselines(baselines)
    \/ LoadBaselines
    \/ ListCachedDates
    \/ GetLatestCachedDate
    \/ \E start_date, end_date \in Dates :
          GetDateRangeFeatures(start_date, end_date)
    \/ \E keep_days \in 0 .. MaxKeepDays, today \in Todays :
          EvictOldCache(keep_days, today)

SpecCache == InitCache /\ [][NextCache]_vars

\* a file of the cache directory is damaged from outside (a torn write, a
\* disk fault): its content is no JSON text any more
CorruptEntry(target_date) ==
    /\ has_features(cache, target_date)
    /\ cache[_get_filename(target_date)] # Malformed
    /\ cache' = [cache EXCEPT ![_get_filename(target_date)] = Malformed]
    /\ hist' = [op |-> "corrupted", args |-> [target_date |-> target_date],
                saved |-> hist.saved, evicted |-> hist.evicted,
                saved_baselines |-> hist.saved_baselines]
    /\ UNCHANGED <<sales, baselines_file, run, agg, det>>

NextCacheFaults ==
    \/ NextCache
    \/ \E target_date \in Dates : CorruptEntry(target_date)

SpecCacheFaults == InitCache /\ [][NextCacheFaults]_vars

---------------------------------------------------------------------------
(* Properties of the pipeline (Spec) *)

\* whether the sales table has a transaction row of date d
HasTransactions(d) == \E r \in sales : r.date = d

\* a build_date_range call has been started and is not a fresh state
RunOver == run.pc \in {"done", "raised"}

\* C1 as stated: on a second run over the same range with no eviction in
\* between, no daily bundle is written and every date of the range is
\* reported "already cached".
C1_AllDatesAlreadyCached ==
    (hist.second_run /\ RunOver) =>
        /\ run.success_count = 0
        /\ \A d \in run.start_date .. run.end_date :
              d \in DOMAIN run.report /\ run.report[d] = "already cached"

\* C1 amended: the second run writes no daily bundle, and what it reports
\* about a date it reaches is "already cached" when the date has
\* transactions and "no data" when it has none; it reaches every date of the
\* range unless aggregate_day raises, which it does on the first date left
\* uncached that has transactions and is a 29 February.
C1_SecondRunWritesNothing ==
    hist.second_run =>
        /\ run.success_count = 0
        /\ \A d \in DOMAIN run.report :
              run.report[d] = IF HasTransactions(d) THEN "already cached"
                              ELSE "no data"
        /\ DOMAIN run.report = run.start_date .. (run.current_date - 1)
        /\ run.pc = "done" => run.current_date = run.end_date + 1
                              \/ run.start_date > run.end_date
        /\ run.pc = "raised" =>
              /\ HasTransactions(run.current_date)
              /\ Ymd(run.current_date).month = 2
              /\ Ymd(run.current_date).day = 29

\* a second run that ended and found one date cached and another without data
C1_Witness ==
    /\ hist.second_run
    /\ run.pc = "done"
    /\ \E d \in DOMAIN run.report : run.report[d] = "already cached"
    /\ \E d \in DOMAIN run.report : run.report[d] = "no data"

\* C2: unless delete_old_cache evicts it, a bundle stored for a date is
\* still stored after every step, with the same content.
C2_EntriesImmutable ==
    [][\A f \in DOMAIN cache :
          IF f \in DOMAIN cache'
          THEN cache'[f] = cache[f]
          ELSE hist'.op = "delete_old_cache" /\ f \in hist'.delete.unlinked]_vars

\* a run skipped a cached date whose stored bundle differs from the one the
\* run would have built against its own baselines
C2_Witness ==
    \E d \in DOMAIN run.report :
        /\ run.report[d] = "already cached"
        /\ Ymd(d) \in DOMAIN cache
        /\ cache[Ymd(d)].anomalies.total_revenue_z # NaN
        /\ cache[Ymd(d)] # build_daily_features(sales, d, run.baselines)

\* a step that starts a run of build_date_range
RunStarts == run.pc # "loop" /\ run'.pc = "loop"

\* C25: a run that has just started, with no date processed yet and whatever
\* is cached, has stored the baselines computed as of its start date, whose
\* calculation_date is that date; a step that starts a run changes no
\* bundle, and no other step changes the stored baselines; and a bundle,
\* once written with the anomalies detected against the baselines of the run
\* that writes it, is not rewritten by later runs.
C25_BaselinesOverwrittenEachRun ==
    /\ []((run.pc = "loop" /\ run.report = EmptyDict
                           /\ run.current_date = run.start_date) =>
            /\ run.baselines = build_baselines(sales, run.start_date)
            /\ baselines_file = save_baselines(run.baselines)
            /\ baselines_file.calculation_date = isoformat(run.start_date))
    /\ [][/\ IF RunStarts
              THEN /\ baselines_file' = save_baselines(run'.baselines)
                   /\ run'.current_date = run'.start_date
                   /\ run'.report = EmptyDict
                   /\ cache' = cache
              ELSE baselines_file' = baselines_file
           /\ \A d \in Dates :
                 LET f == _get_filename(d)
                 IN  f \in DOMAIN cache' =>
                        IF f \in DOMAIN cache THEN cache'[f] = cache[f]
                        ELSE /\ run.pc = "loop" /\ d = run.current_date
                             /\ cache'[f].anomalies =
                                   json_dump(build_daily_features(
                                       sales, d, run.baselines)).anomalies]_vars

\* a run over dates that were all cached has ended: the stored baselines are
\* as of its start date, and a bundle it skipped holds the anomalies of
\* other baselines than its own
C25_Witness ==
    /\ run.pc = "done"
    /\ run.success_count = 0
    /\ DOMAIN run.report = run.start_date .. run.end_date
    /\ run.start_date <= run.end_date
    /\ \A d \in DOMAIN run.report : run.report[d] = "already cached"
    /\ baselines_file # Absent
    /\ baselines_file.calculation_date = isoformat(run.start_date)
    /\ \E d \in DOMAIN run.report :
          cache[_get_filename(d)].anomalies #
              json_dump(build_daily_features(sales, d, run.baselines)).anomalies

\* C27: every bundle in the cache has anomalies that are not empty, with
\* has_anomaly and is_true_anomaly set, and the anomalies of a bundle a run
\* has saved are what detect_daily_anomalies gives for the aggregated day
\* against the baselines of the run.
C27_CachedAnomaliesPopulated ==
    /\ \A d \in Dates :
          has_features(cache, d) =>
              LET anomalies == cache[_get_filename(d)].anomalies
              IN  /\ anomalies # EmptyDict
                  /\ {"has_anomaly", "is_true_anomaly"} \subseteq DOMAIN anomalies
                  /\ anomalies.has_anomaly \in BOOLEAN
                  /\ anomalies.is_true_anomaly \in BOOLEAN
    /\ \A d \in DOMAIN run.report :
          run.report[d] = "saved" =>
              /\ has_features(cache, d)
              /\ cache[_get_filename(d)].anomalies =
                    detect_daily_anomalies(
                        aggregate_day(EmptyDict, sales, d).result, run.baselines)

\* a run has saved a bundle of a day without anomaly: its anomalies hold the
\* total-revenue z-score (a number), both flags false and both lists empty
C27_Witness ==
    \E d \in DOMAIN run.report :
        /\ run.report[d] = "saved"
        /\ has_features(cache, d)
        /\ LET anomalies == cache[_get_filename(d)].anomalies
           IN  /\ anomalies.total_revenue_z \notin {None, NaN}
               /\ ~anomalies.has_anomaly
               /\ ~anomalies.is_true_anomaly
               /\ anomalies.category_anomalies = <<>>
               /\ anomalies.location_anomalies = <<>>

\* C29: when a run of build_date_range is over, the dates of its range that
\* are cached are those that have transactions, a date of the range without
\* transactions was attempted and reported "no data" (not "already cached"),
\* and a run with start > end has written no bundle; and the steps of a run
\* remove no entry and add entries only for dates of the range that have
\* transactions.
C29_RunCachesDatesWithTransactions ==
    /\ [](RunOver =>
            /\ \A d \in run.start_date .. run.end_date :
                  /\ has_features(cache, d) <=> HasTransactions(d)
                  /\ ~HasTransactions(d) =>
                        d \in DOMAIN run.report /\ run.report[d] = "no data"
            /\ run.start_date > run.end_date => run.success_count = 0)
    /\ [][run.pc = "loop" =>
            /\ DOMAIN cache \subseteq DOMAIN cache'
            /\ \A f \in DOMAIN cache' \ DOMAIN cache :
                  \E d \in run.start_date .. run.end_date :
                      f = _get_filename(d) /\ HasTransactions(d)]_vars

\* C3: a delete_old_cache(keep_days) step removes exactly the entries dated
\* before today - keep_days and leaves the others as they were.
C3_DeletesStrictlyOlder ==
    [][hist'.op = "delete_old_cache" =>
        LET cutoff == hist'.delete.today - hist'.delete.keep_days
        IN  /\ DOMAIN cache' \subseteq DOMAIN cache
            /\ \A f \in DOMAIN cache' : cache'[f] = cache[f]
            /\ \A d \in Dates :
                  Ymd(d) \in DOMAIN cache' <=>
                      (Ymd(d) \in DOMAIN cache /\ d >= cutoff)
            /\ hist'.delete.unlinked = DOMAIN cache \ DOMAIN cache'
            /\ hist'.delete.deleted = Cardinality(DOMAIN cache \ DOMAIN cache')]_vars

\* after a delete_old_cache the entry dated today - keep_days is there and
\* the entry dated the day before was deleted
C3_Witness ==
    /\ hist.op = "delete_old_cache"
    /\ Ymd(hist.delete.today - hist.delete.keep_days) \in DOMAIN cache
    /\ Ymd(hist.delete.today - hist.delete.keep_days - 1)
          \in hist.delete.unlinked

\* C9: aggregate_day gives None exactly for the dates without a transaction
\* row, a run reports "no data" for exactly those among the dates it builds,
\* and no entry of the cache is for such a date.
C9_NoBundleWithoutTransactions ==
    /\ \A d \in Dates :
          (aggregate_day(EmptyDict, sales, d).result = NoData)
              <=> ~HasTransactions(d)
    /\ \A d \in DOMAIN run.report :
          run.report[d] = "no data" => ~HasTransactions(d)
    /\ \A d \in Dates : Ymd(d) \in DOMAIN cache => HasTransactions(d)
    /\ \A f \in DOMAIN cache : \E d \in Dates : f = Ymd(d)

\* a run that ended after it stored a bundle for one date and found no data
\* for another
C9_Witness ==
    /\ run.pc = "done"
    /\ \E d \in DOMAIN run.report :
          run.report[d] = "saved" /\ Ymd(d) \in DOMAIN cache
    /\ \E d \in DOMAIN run.report :
          run.report[d] = "no data" /\ Ymd(d) \notin DOMAIN cache

---------------------------------------------------------------------------
(* Properties of the aggregator (SpecAgg) *)

\* the last aggregate_day call returned a bundle
ReturnedBundle ==
    /\ agg.op = "aggregate_day"
    /\ agg.result # NoData
    /\ agg.result # ValueError

\* C10 as stated: in every bundle the revenues of by_category add up to
\* daily_totals.total_revenue and the units to daily_totals.total_units.
C10_CategoryTotalsConsistent ==
    ReturnedBundle =>
        /\ SumOver(DOMAIN agg.result.by_category,
                   [c \in DOMAIN agg.result.by_category |->
                       agg.result.by_category[c].revenue])
           = agg.result.daily_totals.total_revenue
        /\ SumOver(DOMAIN agg.result.by_category,
                   [c \in DOMAIN agg.result.by_category |->
                       agg.result.by_category[c].units])
           = agg.result.daily_totals.total_units

\* C11 as stated: aggregate_date_range(start, end) returns, for every range,
\* the bundles of exactly the dates of the range that have a transaction,
\* one for each such date, in strictly increasing date order.
C11_RangeBundlesInOrder ==
    agg.op = "aggregate_date_range" =>
        /\ ~agg.raised
        /\ Len(agg.features_list) =
              Cardinality({d \in agg.start_date .. agg.end_date :
                              HasTransactions(d)})
        /\ \A d \in agg.start_date .. agg.end_date :
              HasTransactions(d) <=>
                  \E i \in DOMAIN agg.features_list :
                      agg.features_list[i].date = Ymd(d)
        /\ \A i, j \in DOMAIN agg.features_list :
              i < j => fromisoformat(agg.features_list[i].date)
                          < fromisoformat(agg.features_list[j].date)

\* a result of aggregate_day without its timestamp field
ExceptTimestamp(result) ==
    IF result \in {NoData, ValueError} THEN result
    ELSE [k \in DOMAIN result \ {"execution_time"} |-> result[k]]

\* C18: aggregation is idempotent: a call of aggregate_day for the date of
\* the call before it, on the same aggregator or on a new one of the same
\* table, gives a bundle identical to the one before in every field except
\* the timestamp field; and every call gives, except for the timestamp,
\* what a new aggregator gives for the date.
C18_AggregationIdempotent ==
    agg.op = "aggregate_day" =>
        /\ ExceptTimestamp(agg.result)
              = aggregate_day(EmptyDict, sales, agg.target_date).result
        /\ (agg.previous # NoData
             /\ agg.previous.target_date = agg.target_date) =>
                ExceptTimestamp(agg.result)
                    = ExceptTimestamp(agg.previous.result)

\* the second call for a date on one aggregator, whose memo holds the
\* revenue of the day before, gives the bundle of the first call with
\* another timestamp
C18_Witness ==
    /\ agg.op = "aggregate_day"
    /\ ~agg.fresh
    /\ agg.previous # NoData
    /\ agg.previous.target_date = agg.target_date
    /\ agg.result \notin {NoData, ValueError}
    /\ agg.result.execution_time # agg.previous.result.execution_time
    /\ agg.result.by_category # EmptyDict
    /\ \E c \in DOMAIN agg.result.by_category :
          /\ agg.result.by_category[c].growth_vs_yesterday # None
          /\ agg.memo[<<c, agg.target_date - 1>>] > 0

\* C21: no-data conditions are absent values, never errors: for every
\* target date, 29 February included, aggregate_day returns a bundle or
\* None without raising; and when the same calendar date one year earlier
\* has no sales, the bundle has no same_day_last_year and the
\* growth_vs_last_year of every category is None.
C21_NoDataNeverRaises ==
    agg.op = "aggregate_day" =>
        /\ agg.result # ValueError
        /\ (agg.result \notin {NoData, ValueError}
             /\ DayData(sales, LastYear(agg.target_date)) = {}) =>
                /\ "same_day_last_year"
                      \notin DOMAIN agg.result.historical_context
                /\ \A c \in DOMAIN agg.result.by_category :
                      agg.result.by_category[c].growth_vs_last_year = None

\* C22: the memo of (category, date) -> revenue is scoped to one call of
\* aggregate_day: after a call the memo of the aggregator holds no entry
\* but those the call itself looked up, so none made by an earlier call is
\* there for a later one; the same for the last of the per-day calls of
\* aggregate_date_range.
C22_MemoScopedToOneCall ==
    /\ agg.op = "aggregate_day" =>
          DOMAIN agg.memo \subseteq
              MemoKeys(DayData(sales, agg.target_date), agg.target_date)
    /\ (agg.op = "aggregate_date_range" /\ ~agg.raised
         /\ agg.start_date <= agg.end_date) =>
          DOMAIN agg.memo \subseteq
              MemoKeys(DayData(sales, agg.end_date), agg.end_date)

---------------------------------------------------------------------------
(* Properties of two runs at once (SpecRace) *)

\* the file run p writes for date d
WrittenBy(p, d) ==
    json_dump(build_daily_features(sales, d, run[p].baselines))

\* C23: the skip-if-already-cached step is a check-then-act that is not
\* atomic.  Each run writes a date at most once, so a date is written at
\* most twice, and after its writes the file of the date is the one of the
\* later write; when the test and the write of a date are atomic per date,
\* every date is written at most once.  (That two runs can both find
\* has_features(d) false and both write d is C23_Witness.)
C23_CheckThenActRace ==
    \A d \in Dates :
        LET writes == hist.writes[d]
        IN  /\ Len(writes) <= 2
            /\ Len(writes) = 2 => writes[1] # writes[2]
            /\ hist.locked => Len(writes) <= 1
            /\ writes # <<>> =>
                  /\ HasTransactions(d)
                  /\ has_features(cache, d)
                  /\ cache[_get_filename(d)] = WrittenBy(writes[Len(writes)], d)

\* without the lock both runs found no file for a date with sales and both
\* wrote it, and the file is the one of the later write, not the earlier
C23_Witness ==
    /\ ~hist.locked
    /\ \E d \in Dates :
          /\ Len(hist.writes[d]) = 2
          /\ HasTransactions(d)
          /\ cache[_get_filename(d)] = WrittenBy(hist.writes[d][2], d)
          /\ cache[_get_filename(d)] # WrittenBy(hist.writes[d][1], d)

---------------------------------------------------------------------------
(* Properties of the cache (SpecCache, SpecCacheFaults) *)

\* the dates from a to b that have a file in the cache
CachedIn(a, b) == {d \in a .. b : _get_filename(d) \in DOMAIN cache}

\* C12: get_date_range_features(start, end) changes nothing in the cache and
\* returns the bundles stored for the dates of the range that have an entry,
\* each once, in increasing date order, and nothing else.
C12_RangeFeaturesInOrder ==
    [][hist'.op = "get_date_range_features" =>
        /\ cache' = cache
        /\ baselines_file' = baselines_file
        /\ ~hist'.out.raised
        /\ Len(hist'.out.features_list) =
              Cardinality(CachedIn(hist'.args.start_date, hist'.args.end_date))
        /\ \A d \in CachedIn(hist'.args.start_date, hist'.args.end_date) :
              hist'.out.features_list[
                  Cardinality(CachedIn(hist'.args.start_date, d))]
              = hist.saved[d]]_vars

\* a range whose first and last dates have different bundles stored and
\* whose middle date has none: the two bundles are returned in date order
C12_Witness ==
    /\ hist.op = "get_date_range_features"
    /\ hist.args.start_date = LastDate - 2
    /\ hist.args.end_date = LastDate
    /\ CachedIn(LastDate - 2, LastDate) = {LastDate - 2, LastDate}
    /\ Len(hist.out.features_list) = 2
    /\ hist.out.features_list[1] = hist.saved[LastDate - 2]
    /\ hist.out.features_list[2] = hist.saved[LastDate]
    /\ hist.out.features_list[1] # hist.out.features_list[2]

\* C13: after any sequence of save_daily_features, save_baselines and
\* delete_old_cache operations, load_daily_features(d) gives the features of
\* the last save_daily_features for d when d was saved and its file was not
\* deleted since, and None otherwise; has_features(d) is true exactly when
\* load_daily_features(d) is not None.
C13_LoadGivesLastSave ==
    /\ \A d \in Dates :
          /\ load_daily_features(cache, d) =
                IF d \in DOMAIN hist.saved THEN hist.saved[d] ELSE NoData
          /\ has_features(cache, d) <=> load_daily_features(cache, d) # NoData
    /\ hist.op = "load_daily_features" =>
          hist.out = IF hist.args.target_date \in DOMAIN hist.saved
                     THEN hist.saved[hist.args.target_date]
                     ELSE NoData

\* a save has just replaced a different bundle stored for its date, while
\* the file of another date was deleted and is absent
C13_Witness ==
    /\ hist.op = "save_daily_features"
    /\ hist.replaced
    /\ load_daily_features(cache, hist.args.target_date) = hist.args.features
    /\ \E d \in hist.evicted : load_daily_features(cache, d) = NoData

\* C14 as stated: load_baselines gives the baselines last handed to
\* save_baselines, whole, or None when none was saved, whatever bundles were
\* saved in between; and saving baselines leaves every dated entry as it
\* was.
C14_BaselinesSingleton ==
    /\ load_baselines(baselines_file) =
          IF hist.saved_baselines = Absent THEN NoData
          ELSE hist.saved_baselines
    /\ \A d \in Dates :
          load_daily_features(cache, d) =
              IF d \in DOMAIN hist.saved THEN hist.saved[d] ELSE NoData

\* C15: in every state of the cache list_cached_dates gives, in ascending
\* order and without duplicates, exactly the dates d for which has_features(d)
\* is true, baselines.json never being listed, and get_latest_cached_date
\* gives the largest date of that list, None when the list is empty; the
\* results the two operations returned are those.
C15_ListIsCachedDates ==
    LET dates  == list_cached_dates(cache, baselines_file)
        latest == get_latest_cached_date(cache, baselines_file)
    IN  /\ \A i, j \in DOMAIN dates : i < j => dates[i] < dates[j]
        /\ \A d \in Dates :
              has_features(cache, d) <=> \E i \in DOMAIN dates : dates[i] = d
        /\ \A i \in DOMAIN dates : dates[i] \in Dates
        /\ Len(dates) = Cardinality({d \in Dates : has_features(cache, d)})
        /\ IF \A d \in Dates : ~has_features(cache, d)
           THEN latest = None
           ELSE /\ has_features(cache, latest)
                /\ \A d \in Dates : has_features(cache, d) => d <= latest
        /\ hist.op = "list_cached_dates" => hist.out = dates
        /\ hist.op = "get_latest_cached_date" => hist.out = latest

\* get_latest_cached_date returned the later of two cached dates while
\* baselines.json exists
C15_Witness ==
    /\ hist.op = "get_latest_cached_date"
    /\ baselines_file # Absent
    /\ Len(list_cached_dates(cache, baselines_file)) >= 2
    /\ hist.out = list_cached_dates(cache, baselines_file)[
                      Len(list_cached_dates(cache, baselines_file))]
    /\ hist.out # list_cached_dates(cache, baselines_file)[1]

\* the file of date d exists and cannot be parsed
Corrupt(d) ==
    has_features(cache, d) /\ cache[_get_filename(d)] = Malformed

\* C28: a delete_old_cache step leaves baselines.json as it is, leaves every
\* entry dated on or after the cutoff date as it is, adds no entry, and
\* returns the number of entries that were there before it and are not after
\* it; when the operation before it was delete_old_cache with the same
\* keep_days on the same day, it removes nothing and returns 0.
C28_EvictionFrame ==
    [][hist'.op = "delete_old_cache" =>
          LET cutoff_date == hist'.args.today - hist'.args.keep_days
          IN  /\ baselines_file' = baselines_file
              /\ DOMAIN cache' \subseteq DOMAIN cache
              /\ \A f \in DOMAIN cache' : cache'[f] = cache[f]
              /\ \A d \in Dates :
                    (d >= cutoff_date /\ has_features(cache, d)) =>
                        /\ has_features(cache', d)
                        /\ load_daily_features(cache', d) =
                              load_daily_features(cache, d)
              /\ hist'.out = Cardinality(DOMAIN cache \ DOMAIN cache')
              /\ hist'.again => hist'.out = 0 /\ cache' = cache]_vars

\* delete_old_cache was called twice in a row with the same keep_days: the
\* second call returned 0 after the first had removed an entry, and
\* baselines.json and the entry dated on the cutoff date are still there
C28_Witness ==
    /\ hist.op = "delete_old_cache"
    /\ hist.again
    /\ hist.out = 0
    /\ hist.evicted # {}
    /\ baselines_file # Absent
    /\ has_features(cache, hist.args.today - hist.args.keep_days)

\* C19: a cache entry that is present but cannot be parsed is told from an
\* absent one: load_daily_features gives None only when the date has no
\* file, and fails (JSONDecodeError) when the file exists and is malformed;
\* get_date_range_features over a range with a malformed entry fails, and
\* over a range without one does not.
C19_CorruptEntryFailsLoudly ==
    /\ \A d \in Dates :
          /\ load_daily_features(cache, d) = NoData <=> ~has_features(cache, d)
          /\ load_daily_features(cache, d) = JSONDecodeError <=> Corrupt(d)
    /\ hist.op = "load_daily_features" =>
          /\ hist.out = NoData <=> ~has_features(cache, hist.args.target_date)
          /\ hist.out = JSONDecodeError <=> Corrupt(hist.args.target_date)
    /\ hist.op = "get_date_range_features" =>
          /\ hist.out.raised <=>
                \E d \in hist.args.start_date .. hist.args.end_date : Corrupt(d)
          /\ \A i \in DOMAIN hist.out.features_list :
                hist.out.features_list[i] # Malformed

\* get_date_range_features failed over a range that holds a malformed entry
\* after an entry that can be read
C19_Witness ==
    /\ hist.op = "get_date_range_features"
    /\ hist.out.raised
    /\ Len(hist.out.features_list) = 1
    /\ \E d \in hist.args.start_date .. hist.args.end_date :
          /\ Corrupt(d)
          /\ has_features(cache, d - 1)
          /\ ~Corrupt(d - 1)
          /\ hist.args.start_date <= d - 1

---------------------------------------------------------------------------
(* Properties of the detector (SpecDetect) *)

Returned(fn) == det.fn = fn /\ det.done

\* the number of anomalies of a list classified critical or significant
CountSignificant(list) ==
    Cardinality({i \in DOMAIN list :
        list[i].classification = "critical_anomaly"
        \/ list[i].classification = "significant_anomaly"})

\* |z| > 2 for a total-revenue z-score that may be None or nan
AbsAbove2(z) == z # None /\ z # NaN /\ (z > 200 \/ z < -200)

\* C4: two or more critical/significant category anomalies give true, two
\* or more critical/significant location anomalies give true, whatever the
\* total-revenue z-score; exactly one such category anomaly, no location
\* anomaly and a total |z| not above 2 give false.
C4_TwoSignificantConfirm ==
    Returned("_check_multidimensional_anomaly") =>
        /\ CountSignificant(det.args.category_anomalies) >= 2 => det.out
        /\ CountSignificant(det.args.location_anomalies) >= 2 => det.out
        /\ ( /\ CountSignificant(det.args.category_anomalies) = 1
             /\ Len(det.args.location_anomalies) = 0
             /\ ~AbsAbove2(det.args.total_revenue_z) ) => ~det.out

\* two significant category anomalies, no location anomaly, total z = 0
C4_Witness ==
    /\ Returned("_check_multidimensional_anomaly")
    /\ det.args.category_anomalies =
          <<[classification |-> "significant_anomaly"],
            [classification |-> "significant_anomaly"]>>
    /\ det.args.location_anomalies = <<>>
    /\ det.args.total_revenue_z = 0
    /\ det.out

C6_StrictThresholds ==
    (Returned("classify_anomaly") /\ det.args.z_score # NaN) =>
        LET a == IF det.args.z_score < 0 THEN -det.args.z_score
                 ELSE det.args.z_score
        IN  /\ det.out = "critical_anomaly"    <=> a > 300
            /\ det.out = "significant_anomaly" <=> (a > 200 /\ a <= 300)
            /\ det.out = "minor_anomaly"       <=> (a > 150 /\ a <= 200)
            /\ det.out = "normal"              <=> a <= 150

\* z of exactly -3.0 classified significant
C6_Witness ==
    /\ Returned("classify_anomaly")
    /\ det.args.z_score = -300
    /\ det.out = "significant_anomaly"

\* C7 as stated: calculate_z_score(mean + k * std, mean, std) is k for
\* std > 0, and calculate_z_score(x, mean, 0) is 0.
C7_ZScoreIsK ==
    Returned("calculate_z_score") =>
        IF det.args.baseline_std = 0 THEN det.out = 0
        ELSE 10 * det.out = det.args.k_milli

\* C7 amended: for std > 0 the result is k rounded to 2 decimals (within
\* half a hundredth of k, and k itself when k has at most 2 decimals), and
\* for std = 0 it is 0.
C7_ZScoreIsKRounded ==
    Returned("calculate_z_score") =>
        IF det.args.baseline_std = 0 THEN det.out = 0
        ELSE /\ 10 * det.out - det.args.k_milli <= 5
             /\ det.args.k_milli - 10 * det.out <= 5
             /\ det.args.k_milli % 10 = 0 => 10 * det.out = det.args.k_milli

\* k = -0.01 with a mean that is not 0: the result is -0.01
C7_Witness ==
    /\ Returned("calculate_z_score")
    /\ det.args.baseline_std > 0
    /\ det.args.baseline_mean # 0
    /\ det.args.k_milli = -10
    /\ det.out = -1

\* the z-score of a revenue against a baseline entry is not normal (it is
\* normal for a std of 0 and for a std that is nan)
NotNormal(revenue, baseline) ==
    /\ baseline.std # 0
    /\ baseline.std # NaN
    /\ LET z == RoundDiv(100 * (revenue - baseline.mean), baseline.std)
       IN  z > 150 \/ z < -150

\* the keys of a dimension that are in the bundle and in the baselines
InBoth(daily_features, baselines, dim) ==
    IF dim \in DOMAIN daily_features /\ dim \in DOMAIN baselines
    THEN DOMAIN daily_features[dim] \cap DOMAIN baselines[dim]
    ELSE {}

\* C8: has_anomaly is true exactly when the total-revenue z-score is not
\* normal or one of the two lists is not empty, and each list holds exactly
\* the dimensions in the bundle and in the baselines that are not normal.
C8_HasAnomalyIffNonNormal ==
    Returned("detect_daily_anomalies") =>
        LET f == det.args.daily_features
            b == det.args.baselines
            cats == {det.out.category_anomalies[i].category :
                        i \in DOMAIN det.out.category_anomalies}
            locs == {det.out.location_anomalies[i].location :
                        i \in DOMAIN det.out.location_anomalies}
            total == /\ "daily_totals" \in DOMAIN f
                     /\ "total_revenue" \in DOMAIN b
                     /\ NotNormal(f.daily_totals.total_revenue, b.total_revenue)
        IN  /\ det.out.has_anomaly <=> (total \/ cats # {} \/ locs # {})
            /\ cats = {c \in InBoth(f, b, "by_category") :
                        NotNormal(f.by_category[c].revenue, b.by_category[c])}
            /\ locs = {l \in InBoth(f, b, "by_location") :
                        NotNormal(f.by_location[l].revenue, b.by_location[l])}
            /\ Len(det.out.category_anomalies) = Cardinality(cats)
            /\ Len(det.out.location_anomalies) = Cardinality(locs)

\* only a location is anomalous (a minor anomaly): has_anomaly is true while
\* the total revenue is normal and a category is in the bundle only
C8_Witness ==
    /\ Returned("detect_daily_anomalies")
    /\ det.out.has_anomaly
    /\ det.out.total_revenue_z = 0
    /\ det.out.category_anomalies = <<>>
    /\ Len(det.out.location_anomalies) = 1
    /\ det.out.location_anomalies[1].classification = "minor_anomaly"
    /\ DOMAIN det.args.daily_features.by_category = {"OTC"}
    /\ DOMAIN det.args.baselines.by_category = {"Skincare"}

\* C26: the result of detect_daily_anomalies never has is_true_anomaly true
\* with has_anomaly false.
C26_TrueAnomalyHasAnomaly ==
    Returned("detect_daily_anomalies") =>
        (det.out.is_true_anomaly => det.out.has_anomaly)

\* a true anomaly of two significant categories on a day whose total revenue
\* is normal: has_anomaly comes from the lists alone
C26_Witness ==
    /\ Returned("detect_daily_anomalies")
    /\ det.out.is_true_anomaly
    /\ det.out.has_anomaly
    /\ det.out.anomaly_types = <<>>
    /\ CountSignificant(det.out.category_anomalies) >= 2

\* the quotient observed_value / baseline_mean (baseline_mean not 0, neither
\* nan) minus threshold / 100 has the sign of this number
MultiplierLess(args, threshold) ==
    (100 * args.observed_value - threshold * BaselineMean(args.baseline))
        * BaselineMean(args.baseline)

\* C16: detect_category_surge returns is_surge = false, and nothing else,
\* when the baseline mean is zero or missing; otherwise is_surge is true
\* exactly when observed / baseline mean >= the multiplier.
\* detect_category_drought returns is_drought = false when the baseline mean
\* is zero or missing, and otherwise is_drought is true exactly when
\* observed / baseline mean <= the multiplier.  (A quotient that is nan is
\* neither >= nor <= the multiplier.)
C16_SurgeAndDroughtRules ==
    det.done =>
        LET a == det.args
        IN  /\ det.fn = "detect_category_surge" =>
                 IF BaselineMean(a.baseline) = 0
                 THEN det.out = [is_surge |-> FALSE]
                 ELSE det.out.is_surge <=>
                        /\ NaN \notin {a.observed_value, a.baseline.mean}
                        /\ MultiplierLess(a, a.threshold_multiplier) >= 0
            /\ det.fn = "detect_category_drought" =>
                 IF BaselineMean(a.baseline) = 0
                 THEN det.out = [is_drought |-> FALSE]
                 ELSE det.out.is_drought <=>
                        /\ NaN \notin {a.observed_value, a.baseline.mean}
                        /\ MultiplierLess(a, a.threshold_multiplier) <= 0

\* a surge at exactly twice the baseline mean, with the default multiplier
C16_Witness ==
    /\ det.done
    /\ det.fn = "detect_category_surge"
    /\ det.args.threshold_multiplier = SurgeMultiplier
    /\ det.args.baseline = [mean |-> 1000]
    /\ det.args.observed_value = 2000
    /\ det.out.is_surge
    /\ det.out.multiplier = 200

---------------------------------------------------------------------------
(* Properties of the supplier ranking (SpecSupply) *)

\* the rows of the call of det in the trailing twelve months, those of one
\* supplier among them, and their turnover
TrailingRows == SupplyWindow(det.args.sales_df, det.args.as_of_date)

TrailingOf(supplier) == {r \in TrailingRows : r.supplier = supplier}

\* the supplier's share of the trailing revenue compared with pct percent:
\* at least, and above
ShareAtLeast(supplier, pct) ==
    /\ SumTurnover(TrailingRows) > 0
    /\ 100 * SumTurnover(TrailingOf(supplier)) >= pct * SumTurnover(TrailingRows)

ShareAbove(supplier, pct) ==
    /\ SumTurnover(TrailingRows) > 0
    /\ 100 * SumTurnover(TrailingOf(supplier)) > pct * SumTurnover(TrailingRows)

\* the tier of a supplier in the result of the call of det
RankOf(supplier) == det.out.supplier_criticality[supplier].criticality_rank

---------------------------------------------------------------------------
(* Properties of the historical context (SpecContext) *)

\* the rows of the call of det dated from first to last days before the
\* target date, and those of them on the weekday of the target date
RowsBefore(first, last) ==
    {r \in det.args.sales_df :
        /\ r.date >= det.args.target_date - first
        /\ r.date <= det.args.target_date - last}

SameWeekdayBefore(first, last) ==
    {r \in RowsBefore(first, last) :
        (det.args.target_date - r.date) % 7 = 0}

\* the entry key of the historical context of the bundle det holds is there
\* exactly when rows is not empty, and is then value
ContextEntry(key, rows, value) ==
    /\ key \in DOMAIN det.out.historical_context <=> rows # {}
    /\ rows # {} => det.out.historical_context[key] = value

\* C20: in the bundle of aggregate_day for the date T the 7-day figures are
\* those of the 7 dates T-7 .. T-1, the 30-day figures those of the 30 dates
\* T-30 .. T-1, and the same-weekday median that of the dates with T's
\* weekday within T-56 .. T-1, T-56 included; T itself is in no window, and
\* a figure is left out exactly when its window has no sales.
C20_HistoricalWindows ==
    (det.done /\ det.out # NoData /\ det.out # ValueError) =>
        /\ ContextEntry("7_day_average", RowsBefore(7, 1),
                        MeanRevenue(DailyRevenues(RowsBefore(7, 1))))
        /\ ContextEntry("7_day_median", RowsBefore(7, 1),
                        MedianRevenue(DailyRevenues(RowsBefore(7, 1))))
        /\ ContextEntry("30_day_average", RowsBefore(30, 1),
                        MeanRevenue(DailyRevenues(RowsBefore(30, 1))))
        /\ ContextEntry("30_day_median", RowsBefore(30, 1),
                        MedianRevenue(DailyRevenues(RowsBefore(30, 1))))
        /\ ContextEntry("weekday_typical", SameWeekdayBefore(56, 1),
                        MedianRevenue(DailyRevenues(SameWeekdayBefore(56, 1))))

---------------------------------------------------------------------------
(* Properties of the inventory health (SpecHealth) *)

\* the total stock of the category of the call of det
TotalStock ==
    SumStock({r \in det.args.inventory_df.rows :
                r.dept = det.args.category})

\* C24: in the inventory health alert_needed is true exactly when the
\* outbreak consumption rate is positive and the outbreak days of supply,
\* total stock / outbreak rate rounded to 1 decimal, is below 5; when a
\* consumption rate is zero its days of supply is None, and with an outbreak
\* rate of zero alert_needed is false.
C24_AlertBelowFiveDays ==
    (det.done /\ det.args.inventory_df # NoData) =>
        LET spike  == det.args.spike_daily_units
            normal == det.args.normal_daily_units
            health == det.out
        IN  /\ health.alert_needed <=>
                  /\ spike # NaN /\ spike > 0
                  /\ health.days_of_supply_outbreak # None
                  /\ health.days_of_supply_outbreak < 50
            /\ (spike # NaN /\ spike > 0) =>
                  /\ health.days_of_supply_outbreak # None
                  /\ 2 * Abs(100 * TotalStock
                             - health.days_of_supply_outbreak * spike) <= spike
            /\ spike = 0 =>
                  /\ health.days_of_supply_outbreak = None
                  /\ ~health.alert_needed
            /\ normal = 0 => health.days_of_supply_normal = None

\* 4.95 days of supply at the outbreak rate round to 5.0: no alert
C24_Witness ==
    /\ det.done
    /\ det.fn = "_calculate_inventory_health"
    /\ det.args.inventory_df # NoData
    /\ det.args.spike_daily_units = 200
    /\ TotalStock = 99
    /\ det.out.days_of_supply_outbreak = 50
    /\ ~det.out.alert_needed
    /\ det.args.normal_daily_units = 0
    /\ det.out.days_of_supply_normal = None

---------------------------------------------------------------------------
(* news_alerts/event_storage.py: the EventStorage on its own.  cache holds *)
(* the files events_<date>.json of a storage directory that is empty at    *)
(* first, hist the last operation with its arguments and result.           *)

\* the fields of a DetectedEvent the model keeps (the other fields are
\* dumped and parsed the same way), and the literals of the two it checks
EventFields   == {"event_type", "title", "severity", "source_url"}
EventTypes    == {"major_event", "health_emergency", "weather_extreme",
                  "economic_shock", "competitor_action", "regulatory_change",
                  "supply_disruption", "viral_trend", "other"}
Severities    == {"low", "medium", "high", "critical"}

\* what DetectedEvent(**event_data) raises on data it does not accept
ValidationError == [raised |-> "ValidationError"]

\* DetectedEvent(**event_data): the model object of the dict, or
\* ValidationError
DetectedEvent(event_data) ==
    IF /\ DOMAIN event_data = EventFields
       /\ event_data.event_type \in EventTypes
       /\ event_data.severity \in Severities
    THEN [model |-> "DetectedEvent", fields |-> event_data]
    ELSE ValidationError

\* event.model_dump(): the dict of the fields of the model object
model_dump(event) == event.fields

\* the name of the file of a date: events_<isoformat>.json
_get_events_file_path(event_date) == [events |-> isoformat(event_date)]

RECURSIVE ParsedEvents(_)
\* the loop of load_events over data.get("events", []): an entry that does
\* not parse is passed over
ParsedEvents(entries) ==
    IF entries = <<>> THEN <<>>
    ELSE LET event == DetectedEvent(Head(entries))
         IN  (IF event = ValidationError THEN <<>> ELSE <<event>>)
             \o ParsedEvents(Tail(entries))

\* load_events: the empty list when the date has no file
load_events(files, event_date) ==
    IF _get_events_file_path(event_date) \notin DOMAIN files THEN <<>>
    ELSE ParsedEvents(files[_get_events_file_path(event_date)].events)

\* _save_events_list: the file of the date is created or replaced
_save_events_list(files, events, event_date) ==
    LET data == [date |-> isoformat(event_date),
                 total_events |-> Len(events),
                 events |-> [i \in 1 .. Len(events) |-> model_dump(events[i])]]
    IN  [f \in DOMAIN files \cup {_get_events_file_path(event_date)} |->
            IF f = _get_events_file_path(event_date) THEN data ELSE files[f]]

\* a faulty save, against which C30 is checked: a duplicate is one with the
\* same title
AnySameUrl_ByTitle(existing_events, event) ==
    \E i \in DOMAIN existing_events :
        existing_events[i].fields.title = event.fields.title

\* any(e.source_url == event.source_url for e in existing_events)
AnySameUrl(existing_events, event) ==
    \E i \in DOMAIN existing_events :
        existing_events[i].fields.source_url = event.fields.source_url

\* the date save_event files the event under
EventDateOr(event_date, today) == IF event_date = None THEN today ELSE event_date

\* save_event: the files of the storage directory afterwards
save_event(files, event, event_date, today) ==
    LET date == EventDateOr(event_date, today)
        existing_events == load_events(files, date)
    IN  IF ~AnySameUrl(existing_events, event)
        THEN _save_events_list(files, Append(existing_events, event), date)
        ELSE files

\* the events saved: two source URLs, each under two titles
SourceUrls == {"https://www.rte.ie/news/1", "https://www.rte.ie/news/2"}
Titles     == {"Flu outbreak", "Flu outbreak (updated)"}
Events ==
    {DetectedEvent([event_type |-> "health_emergency", title |-> t,
                    severity |-> "high", source_url |-> u]) :
        t \in Titles, u \in SourceUrls}
\* the dates events are filed under: None stands for the default, today
EventDates == {LastDate - 1, LastDate, None}

InitEvents ==
    /\ sales = {}
    /\ cache = EmptyDict
    /\ baselines_file = Absent
    /\ run = NoRun
    /\ hist = [op |-> "none"]
    /\ agg = NoAgg
    /\ det = NoDet

\* storage.save_event(event, event_date) on a day date.today() = today
SaveEvent(event, event_date, today) ==
    /\ cache' = save_event(cache, event, event_date, today)
    /\ hist' = [op |-> "save_event",
                args |-> [event |-> event, event_date |-> event_date,
                          today |-> today],
                out |-> None]
    /\ UNCHANGED <<sales, baselines_file, run, agg, det>>

\* storage.load_events(event_date)
LoadEvents(event_date) ==
    /\ hist' = [op |-> "load_events", args |-> [event_date |-> event_date],
                out |-> load_events(cache, event_date)]
    /\ UNCHANGED <<sales, cache, baselines_file, run, agg, det>>

NextEvents ==
    \/ \E event \in Events, event_date \in EventDates, today \in Todays :
          SaveEvent(event, event_date, today)
    \/ \E event_date \in Dates : LoadEvents(event_date)

SpecEvents == InitEvents /\ [][NextEvents]_vars

---------------------------------------------------------------------------
(* Properties of the event storage (SpecEvents) *)

\* the source URLs of the events of a stored list, in order
StoredUrls(data) == [i \in DOMAIN data.events |-> data.events[i].source_url]

\* C30: no stored list holds two events of one source_url, and the stored
\* total_events is the length of the stored list; a save_event step whose
\* source_url is already stored for the date leaves every file as it is, and
\* any other save_event step appends the event to the list of the date and
\* leaves the other files as they are.
C30_DeduplicatedBySourceUrl ==
    /\ [](\A f \in DOMAIN cache :
            /\ \A i, j \in DOMAIN cache[f].events :
                  StoredUrls(cache[f])[i] = StoredUrls(cache[f])[j] => i = j
            /\ cache[f].total_events = Len(cache[f].events))
    /\ [][hist'.op = "save_event" =>
            LET event == hist'.args.event
                date == EventDateOr(hist'.args.event_date, hist'.args.today)
                f == _get_events_file_path(date)
            IN  IF /\ f \in DOMAIN cache
                   /\ \E i \in DOMAIN cache[f].events :
                        cache[f].events[i].source_url = event.fields.source_url
                THEN cache' = cache
                ELSE /\ load_events(cache', date) =
                          Append(load_events(cache, date), event)
                     /\ \A g \in DOMAIN cache : g # f => cache'[g] = cache[g]
                     /\ DOMAIN cache' = DOMAIN cache \cup {f}]_vars

\* an event was handed to save_event whose source_url was stored for the
\* date under another title: the list of the date, of two events, holds the
\* first one
C30_Witness ==
    /\ hist.op = "save_event"
    /\ LET event == hist.args.event
           f == _get_events_file_path(
                    EventDateOr(hist.args.event_date, hist.args.today))
       IN  /\ f \in DOMAIN cache
           /\ cache[f].total_events = 2
           /\ \E i \in DOMAIN cache[f].events :
                 /\ cache[f].events[i].source_url = event.fields.source_url
                 /\ cache[f].events[i].title # event.fields.title

=============================================================================
